---------------------------- MODULE Spec2Model ----------------------------
(***************************************************************************)
(* A model of the drop-rate lookup pages (item, monster, map and NPC       *)
(* pages): the fuzzy matcher, the name index, the result cache, the search *)
(* handlers, the dataset loader and the drill-down handlers.               *)
(*                                                                         *)
(* Strings are sequences of one-character strings, so that they can be     *)
(* scanned, split and concatenated the way the code does it.               *)
(***************************************************************************)
EXTENDS Integers, Sequences, FiniteSets, TLC

VARIABLES
    \* ---- matchesFuzzily, one call, statement by statement
    haystack,        \* the arguments
    needle,
    haystackIndex,   \* the two positions of the loop
    needleIndex,
    mpc,             \* "entry", "loop", "done" ("off": no call is modelled)
    mresult,         \* the value returned
    \* ---- one page session
    page,            \* the page that is open: "item", "mon", "map", "npc"
    Stdlist,         \* the four globals a data file sets
    Monlist,
    Maplist,
    Npclist,
    indexedData,     \* the name index of the page
    searchCache,     \* the Map of the page, in insertion order
    keyInput,        \* the text of #key
    monsterFilter,   \* the value of #monsterFilter
    equList,         \* what #equList shows
    inFlight,        \* the fetches loadGameData has started and not settled
    \* ---- what the last handler did, recorded for the claims
    outcome,         \* the path of the last search: "nodata", "all", "hit", "miss"
                     \* ("threw": it raised an exception at its start)
    installed,       \* the index and the cache as the last install left them
                     \* when it handed over to its search, and how the last
                     \* call of loadGameData that has ended failed, if it did
    stamps,          \* for every key of the cache: the length the collection
                     \* had when the entry was stored, and whether the length
                     \* has stayed the same since
    nSearch,         \* searches the user has made
    nLoad,           \* calls of loadGameData
    nTyped,          \* distinct keywords the user has typed, when counted
    \* ---- the drill-down lists of the item page
    monList,         \* what #monList shows
    npccon,          \* what #npccon shows
    mapList,         \* what #mapList shows
    dingshicon,      \* what #dingshicon shows
    mapTransferList, \* what #mapTransferList shows
    drill,           \* the last drill-down: its handler, its argument, and
                     \* whether it ended in an exception
    \* ---- one call of sanitizeInput
    sinput,          \* its argument: the typeof of the value and, for a
                     \* string, its characters
    soutput,         \* the value it returns
    spc,             \* its position: "off", "entry", "replace", "done"
    \* ---- the navigation of a page
    pageName,        \* the last segment of the path of the page ("off": no
                     \* navigation is modelled)
    version_list,    \* the global custom.js defines
    versionParam,    \* the parameter v of the URL
    versionListPopulated,
    versionChildList,\* the entries of #version-child-list
    versionButtons,  \* the buttons of .version_list
    navGuides,       \* the guide entries of .layui-nav
    title,           \* the text of the title element
    rightNav,        \* what #right-nav-link or #current-version-display shows
    versionCookie,   \* the cookies version_name and version_data
    alerts,          \* the alerts shown
    readyRun,        \* the ready handlers that have run
    nCalls           \* calls of initialize_page

mvars == <<haystack, needle, haystackIndex, needleIndex, mpc, mresult>>

pvars == <<page, Stdlist, Monlist, Maplist, Npclist, indexedData, searchCache,
           keyInput, monsterFilter, equList, inFlight, outcome, installed,
           stamps, nSearch, nLoad>>

dvars == <<monList, npccon, mapList, dingshicon, mapTransferList, drill>>

svars == <<sinput, soutput, spc>>

nvars == <<pageName, version_list, versionParam, versionListPopulated,
           versionChildList, versionButtons, navGuides, title, rightNav,
           versionCookie, alerts, readyRun, nCalls>>

\* The variables of the calls of the pure functions.
fvars == <<mvars, svars, nvars>>

vars == <<mvars, pvars, nTyped, dvars, svars, nvars>>

----------------------------------------------------------------------------
(* Strings *)

\* Longest generated haystack / needle of the matcher's specification.
MaxStrLen == 3

\* The characters the generated strings are made of: a letter in both cases
\* and a second letter.
MatchAlphabet == {"a", "A", "b"}

SeqsUpTo(S, n) == UNION {[1..k -> S] : k \in 0..n}

\* String.prototype.toLowerCase on one code unit.
Lower(c) ==
    CASE c = "A" -> "a"
      [] c = "B" -> "b"
      [] c = "F" -> "f"
      [] c = "S" -> "s"
      [] OTHER -> c

\* String.prototype.toLowerCase on a whole string.
ToLowerCase(s) == [i \in 1..Len(s) |-> Lower(s[i])]

FireSword == <<"F", "i", "r", "e", " ", "S", "w", "o", "r", "d">>
Kw_fswd == <<"f", "s", "w", "d">>
Kw_wfs == <<"w", "f", "s">>
Kw_firesw == <<"f", "i", "r", "e", "s", "w">>

----------------------------------------------------------------------------
(* matchesFuzzily *)

\* A mutant of CharsMatch: the comparison without the case folding.
CharsMatchCaseSensitive(h, n) == h = n

\* The test of the loop body: haystack.charAt(i).toLowerCase() ===
\* needle.charAt(j).toLowerCase().
CharsMatch(h, n) == Lower(h) = Lower(n)

\* The loop of matchesFuzzily from positions hi, ni (0-based, as in the code),
\* and the value returned after it.
RECURSIVE FuzzyScan(_, _, _, _)
FuzzyScan(h, n, hi, ni) ==
    IF hi < Len(h) /\ ni < Len(n)
    THEN FuzzyScan(h, n, hi + 1,
                   IF CharsMatch(h[hi + 1], n[ni + 1]) THEN ni + 1 ELSE ni)
    ELSE ni = Len(n)

\* matchesFuzzily(haystack, needle) as a function of its arguments.
matchesFuzzily(h, n) ==
    IF n = <<>> \/ h = <<>> THEN n = <<>> ELSE FuzzyScan(h, n, 0, 0)

\* The inputs of the matcher's specification: every pair of short strings,
\* and the two worked examples.
MatchInputs ==
    (SeqsUpTo(MatchAlphabet, MaxStrLen) \X SeqsUpTo(MatchAlphabet, MaxStrLen))
        \cup {<<FireSword, Kw_fswd>>, <<FireSword, Kw_wfs>>}

\* No page is modelled.
PageOff ==
    /\ page = "none"
    /\ Stdlist = [def |-> FALSE, rows |-> <<>>]
    /\ Monlist = [def |-> FALSE, rows |-> <<>>]
    /\ Maplist = [def |-> FALSE, rows |-> <<>>]
    /\ Npclist = [def |-> FALSE, rows |-> <<>>]
    /\ indexedData = [built |-> FALSE, byName |-> <<>>]
    /\ searchCache = <<>>
    /\ keyInput = <<>>
    /\ monsterFilter = <<>>
    /\ equList = [msg |-> FALSE, nodes |-> <<>>]
    /\ inFlight = 0
    /\ outcome = "none"
    /\ installed = [taken |-> FALSE, list |-> <<>>, index |-> <<>>, cache |-> <<>>,
                    failed |-> "no"]
    /\ stamps = {}
    /\ nSearch = 0
    /\ nLoad = 0
    /\ nTyped = 0
    /\ monList = [text |-> "", nodes |-> <<>>]
    /\ npccon = [text |-> "", nodes |-> <<>>]
    /\ mapList = [text |-> "", nodes |-> <<>>]
    /\ dingshicon = <<>>
    /\ mapTransferList = <<>>
    /\ drill = [op |-> "none", id |-> 0, threw |-> FALSE]

\* No call of matchesFuzzily is modelled.
MatchOff ==
    /\ haystack = <<>>
    /\ needle = <<>>
    /\ haystackIndex = 0
    /\ needleIndex = 0
    /\ mpc = "off"
    /\ mresult = FALSE

\* No cookie is set.
NoCookie == [name |-> <<"undefined">>, data |-> <<"undefined">>]

\* No navigation is modelled.
NavOff ==
    /\ pageName = "off"
    /\ version_list = [def |-> FALSE, rows |-> <<>>]
    /\ versionParam = <<>>
    /\ versionListPopulated = FALSE
    /\ versionChildList = <<>>
    /\ versionButtons = <<>>
    /\ navGuides = 0
    /\ title = ""
    /\ rightNav = [kind |-> "none", name |-> <<>>]
    /\ versionCookie = NoCookie
    /\ alerts = 0
    /\ readyRun = 0
    /\ nCalls = 0

\* No call of sanitizeInput is modelled.
SanitizeOff ==
    /\ sinput = [type |-> "undefined", chars |-> <<>>]
    /\ soutput = <<>>
    /\ spc = "off"

InitMatch ==
    /\ \E p \in MatchInputs : haystack = p[1] /\ needle = p[2]
    /\ haystackIndex = 0
    /\ needleIndex = 0
    /\ mpc = "entry"
    /\ mresult = FALSE
    /\ PageOff
    /\ SanitizeOff
    /\ NavOff

\* if (!needle || !haystack) return !needle;
MatchEntry ==
    /\ mpc = "entry"
    /\ IF needle = <<>> \/ haystack = <<>>
       THEN mpc' = "done" /\ mresult' = (needle = <<>>)
       ELSE mpc' = "loop" /\ mresult' = mresult
    /\ UNCHANGED <<haystack, needle, haystackIndex, needleIndex>>
    /\ UNCHANGED <<pvars, nTyped, dvars, svars, nvars>>

\* A mutant of Advanced: the haystack position stays where it is.
AdvancedNot(index) == index

\* haystackIndex++
Advanced(index) == index + 1

\* One iteration of the while loop.
MatchIterate ==
    /\ mpc = "loop"
    /\ haystackIndex < Len(haystack) /\ needleIndex < Len(needle)
    /\ needleIndex' =
          IF CharsMatch(haystack[haystackIndex + 1], needle[needleIndex + 1])
          THEN needleIndex + 1
          ELSE needleIndex
    /\ haystackIndex' = Advanced(haystackIndex)
    /\ UNCHANGED <<haystack, needle, mpc, mresult>>
    /\ UNCHANGED <<pvars, nTyped, dvars, svars, nvars>>

\* return needleIndex === needle.length;
MatchReturn ==
    /\ mpc = "loop"
    /\ ~(haystackIndex < Len(haystack) /\ needleIndex < Len(needle))
    /\ mpc' = "done"
    /\ mresult' = (needleIndex = Len(needle))
    /\ UNCHANGED <<haystack, needle, haystackIndex, needleIndex>>
    /\ UNCHANGED <<pvars, nTyped, dvars, svars, nvars>>

NextMatch ==
    \/ MatchEntry
    \/ MatchIterate
    \/ MatchReturn

SpecMatch == InitMatch /\ [][NextMatch]_vars

\* A call of matchesFuzzily runs to its return: the function is synchronous
\* and nothing else runs on the thread until it has returned.
SpecMatchFair == SpecMatch /\ WF_vars(NextMatch)

----------------------------------------------------------------------------
(* Claims about matchesFuzzily *)

\* n is a subsequence of h, characters compared without regard to case: some
\* strictly increasing choice of positions of h spells n.
IsSubsequence(h, n) ==
    \E f \in [1..Len(n) -> 1..Len(h)] :
        /\ \A i \in 1..Len(n) : \A j \in 1..Len(n) : i < j => f[i] < f[j]
        /\ \A i \in 1..Len(n) : Lower(h[f[i]]) = Lower(n[i])

\* C1: matchesFuzzily(haystack, needle) returns true exactly when needle is
\* a subsequence of haystack, case-insensitively: the greedy scan agrees with
\* the existence of an order-preserving embedding. An empty needle matches
\* every haystack, a non-empty needle never matches an empty haystack,
\* "Fire Sword"/"fswd" is true and "Fire Sword"/"wfs" is false.
C1_FuzzyIsSubsequence ==
    mpc = "done" =>
        /\ mresult = IsSubsequence(haystack, needle)
        /\ needle = <<>> => mresult
        /\ (haystack = <<>> /\ needle # <<>>) => ~mresult
        /\ (haystack = FireSword /\ needle = Kw_fswd) => mresult
        /\ (haystack = FireSword /\ needle = Kw_wfs) => ~mresult

\* A match that needs both the case folding and a gap: "Fire Sword"/"fswd".
C1_Witness ==
    /\ mpc = "done"
    /\ haystack = FireSword
    /\ needle = Kw_fswd
    /\ mresult

----------------------------------------------------------------------------
(* JavaScript values *)

\* The value of a property a row does not have (typeof v === 'undefined').
Undef == <<"undefined">>

\* The value null of a field.
Null == <<"null">>

\* A global that holds no array (typeof X === "undefined").
NoList == [def |-> FALSE, rows |-> <<>>]

\* A global that holds the array rows.
Arr(rows) == [def |-> TRUE, rows |-> rows]

\* The sentinel "-1" of a relation field.
MinusOne == <<"-", "1">>

DigitChars == <<"0", "1", "2", "3", "4", "5", "6", "7", "8", "9">>

\* String(n) for a non-negative integer n.
RECURSIVE NumToString(_)
NumToString(n) ==
    IF n < 10
    THEN <<DigitChars[n + 1]>>
    ELSE NumToString(n \div 10) \o <<DigitChars[(n % 10) + 1]>>

IsDigit(c) == \E d \in 1..10 : DigitChars[d] = c

DigitValue(c) == (CHOOSE d \in 1..10 : DigitChars[d] = c) - 1

\* The sequence lo, lo + 1, ..., hi.
Range(lo, hi) == [k \in 1..(hi - lo + 1) |-> lo + k - 1]

\* The concatenation of the sequences of a sequence of sequences.
RECURSIVE Flatten(_)
Flatten(ss) == IF ss = <<>> THEN <<>> ELSE Head(ss) \o Flatten(Tail(ss))

----------------------------------------------------------------------------
(* sanitizeInput *)

\* A mutant of EscapeChar: the apostrophe is left as it is.
EscapeCharButApostrophe(c) ==
    CASE c = "<" -> <<"&", "l", "t", ";">>
      [] c = ">" -> <<"&", "g", "t", ";">>
      [] c = "&" -> <<"&", "a", "m", "p", ";">>
      [] c = "\"" -> <<"&", "q", "u", "o", "t", ";">>
      [] OTHER -> <<c>>

\* The replacement function of sanitizeInput, on one character.
EscapeChar(c) ==
    CASE c = "<" -> <<"&", "l", "t", ";">>
      [] c = ">" -> <<"&", "g", "t", ";">>
      [] c = "&" -> <<"&", "a", "m", "p", ";">>
      [] c = "\"" -> <<"&", "q", "u", "o", "t", ";">>
      [] c = "'" -> <<"&", "#", "x", "2", "7", ";">>
      [] OTHER -> <<c>>

\* sanitizeInput(input) for a string input.
sanitizeInput(input) == Flatten([i \in 1..Len(input) |-> EscapeChar(input[i])])

\* keyword = sanitizeInput($("#key").val()).toLowerCase()
NormalizeKeyword(raw) == ToLowerCase(sanitizeInput(raw))

\* The characters of the arguments of a call of sanitizeInput: the five the
\* function replaces, a letter, and the semicolon its entities end with.
SanitizeAlphabet == {"<", ">", "&", "\"", "'", "a", ";"}

\* What typeof yields for the arguments that are not strings.
OtherTypes == {"undefined", "object", "number", "boolean", "function"}

\* The arguments of the call: every short string, and a value of every other
\* type.
SanitizeInputs ==
    {[type |-> "string", chars |-> c] : c \in SeqsUpTo(SanitizeAlphabet, MaxStrLen)}
        \cup {[type |-> t, chars |-> <<>>] : t \in OtherTypes}

InitSanitize ==
    /\ sinput \in SanitizeInputs
    /\ soutput = <<>>
    /\ spc = "entry"
    /\ MatchOff
    /\ PageOff
    /\ NavOff

\* if (typeof input !== 'string') { return ''; }
SanitizeEntry ==
    /\ spc = "entry"
    /\ IF sinput.type # "string"
       THEN spc' = "done" /\ soutput' = <<>>
       ELSE spc' = "replace" /\ soutput' = soutput
    /\ UNCHANGED <<sinput, mvars, pvars, nTyped, dvars, nvars>>

\* return input.replace(/[<>'"&]/g, ...)
SanitizeReplace ==
    /\ spc = "replace"
    /\ soutput' = sanitizeInput(sinput.chars)
    /\ spc' = "done"
    /\ UNCHANGED <<sinput, mvars, pvars, nTyped, dvars, nvars>>

NextSanitize ==
    \/ SanitizeEntry
    \/ SanitizeReplace

SpecSanitize == InitSanitize /\ [][NextSanitize]_vars

\* The entity the specification gives for a character, or the character.
Entity(c) ==
    IF c = "<" THEN <<"&", "l", "t", ";">>
    ELSE IF c = ">" THEN <<"&", "g", "t", ";">>
    ELSE IF c = "&" THEN <<"&", "a", "m", "p", ";">>
    ELSE IF c = "\"" THEN <<"&", "q", "u", "o", "t", ";">>
    ELSE IF c = "'" THEN <<"&", "#", "x", "2", "7", ";">>
    ELSE <<c>>

\* out is inp with every character replaced by its entity, in place: out
\* splits into one piece per character of inp, the piece of a character being
\* its entity.
ReplacedInPlace(inp, out) ==
    \E start \in [1..(Len(inp) + 1) -> 1..(Len(out) + 1)] :
        /\ start[1] = 1
        /\ start[Len(inp) + 1] = Len(out) + 1
        /\ \A i \in 1..Len(inp) :
              /\ start[i + 1] = start[i] + Len(Entity(inp[i]))
              /\ SubSeq(out, start[i], start[i + 1] - 1) = Entity(inp[i])

\* C18: sanitizeInput returns the empty string for an argument that is not a
\* string; for a string it returns the argument with each of < > & " '
\* replaced by &lt; &gt; &amp; &quot; &#x27; and every other character
\* unchanged and in place; what it returns contains none of < > " '.
C18_SanitizeInputEscapes ==
    spc = "done" =>
        /\ sinput.type # "string" => soutput = <<>>
        /\ sinput.type = "string" => ReplacedInPlace(sinput.chars, soutput)
        /\ \A i \in 1..Len(soutput) : soutput[i] \notin {"<", ">", "\"", "'"}

\* The call has returned for a string holding an apostrophe, an ampersand, a
\* letter and nothing else.
C18_Witness ==
    /\ spc = "done"
    /\ sinput = [type |-> "string", chars |-> <<"'", "a", "&">>]
    /\ soutput = <<"&", "#", "x", "2", "7", ";", "a", "&", "a", "m", "p", ";">>

----------------------------------------------------------------------------
(* The name index *)

\* The position in byName of the entry keyed name, or 0.
IndexPos(byName, name) ==
    IF \E k \in 1..Len(byName) : byName[k].name = name
    THEN CHOOSE k \in 1..Len(byName) : byName[k].name = name
    ELSE 0

\* The loop of initializeIndex from row i (0-based) on, byName being the Map
\* built so far: a sequence of entries in insertion order.
RECURSIVE IndexRows(_, _, _)
IndexRows(rows, i, byName) ==
    IF i >= Len(rows)
    THEN byName
    ELSE LET name == rows[i + 1].name
             lowerName == ToLowerCase(name)
             k == IndexPos(byName, lowerName)
         IN  IF name = <<>> \/ name = Undef
             THEN IndexRows(rows, i + 1, byName)
             ELSE IF k = 0
                  THEN IndexRows(rows, i + 1,
                           Append(byName, [name |-> lowerName, indices |-> <<i>>]))
                  ELSE IndexRows(rows, i + 1,
                           [byName EXCEPT ![k].indices = Append(@, i)])

\* indexedData before initializeIndex has built anything.
NullIndex == [built |-> FALSE, byName |-> <<>>]

\* initializeIndex(): the index is rebuilt over list when list is an array,
\* and left as it is otherwise.
\* A mutant of initializeIndex: a name already in the index keeps the one
\* position it was entered with.
initializeIndexFirstOnly(list, old) ==
    IF list.def
    THEN [built |-> TRUE,
          byName |-> [k \in 1..Len(IndexRows(list.rows, 0, <<>>)) |->
                        [IndexRows(list.rows, 0, <<>>)[k] EXCEPT
                            !.indices = <<Head(@)>>]]]
    ELSE old

initializeIndex(list, old) ==
    IF list.def
    THEN [built |-> TRUE, byName |-> IndexRows(list.rows, 0, <<>>)]
    ELSE old

----------------------------------------------------------------------------
(* Relation fields *)

\* String.prototype.split(","): the segments of s between its commas; cur is
\* the segment being read and acc the segments read so far.
RECURSIVE SplitFrom(_, _, _)
SplitFrom(s, cur, acc) ==
    IF s = <<>>
    THEN Append(acc, cur)
    ELSE IF Head(s) = ","
         THEN SplitFrom(Tail(s), <<>>, Append(acc, cur))
         ELSE SplitFrom(Tail(s), Append(cur, Head(s)), acc)

Split(s) == SplitFrom(s, <<>>, <<>>)

\* The number a string of digits denotes.
RECURSIVE DigitsValue(_, _)
DigitsValue(s, acc) ==
    IF s = <<>> THEN acc ELSE DigitsValue(Tail(s), acc * 10 + DigitValue(Head(s)))

\* s with the elements that occur earlier in it removed.
Dedupe(s) ==
    LET kept == SelectSeq(Range(1, Len(s)),
                          LAMBDA k : \A j \in 1..(k - 1) : s[j] # s[k])
    IN  [k \in 1..Len(kept) |-> s[kept[k]]]

\* A property key that is an array index: a canonical decimal numeral.
IsArrayIndex(key) ==
    /\ key # <<>>
    /\ \A k \in 1..Len(key) : IsDigit(key[k])
    /\ Len(key) > 1 => key[1] # "0"

----------------------------------------------------------------------------
(* The result list and the search cache *)

\* MAX_CACHE_SIZE
MAX_CACHE_SIZE == 50

\* The onclick of a node that has none.
NoHandler == -1

\* The div.hove a search appends for row i: its listId attribute, its text
\* `${i + 1}、${row.name}`, and the onclick closure that drills down into i.
EntryNode(i, row) ==
    [listId |-> i, no |-> i + 1, name |-> row.name, onclick |-> i]

\* fragment.cloneNode(true): the nodes with their attributes and text; a
\* handler assigned to the onclick property is not part of the copy.
cloneNode(frag) == [k \in 1..Len(frag) |-> [frag[k] EXCEPT !.onclick = NoHandler]]

\* What #equList shows: the no-data message, or a list of nodes.
NoDataMessage == [msg |-> TRUE, nodes |-> <<>>]
Listing(nodes) == [msg |-> FALSE, nodes |-> nodes]

FilterAll == <<"a", "l", "l">>
FilterDropsItems == <<"d", "r", "o", "p", "s", "I", "t", "e", "m", "s">>

\* A value of #monsterFilter that is neither of the two.
FilterOther == <<"x">>

\* filterType = $("#monsterFilter").val() || 'dropsItems'
FilterType(val) == IF val = <<>> THEN FilterDropsItems ELSE val

\* A mutant of CacheKey: the key of the monster page is built like the keys of
\* the other pages, without the filter.
CacheKeyWithoutFilter(pg, keyword, filterType, len) ==
    CASE pg = "item" ->
            <<"f", "u", "z", "z", "y", "_">> \o keyword \o <<"_">> \o NumToString(len)
      [] pg = "mon" ->
            <<"m", "o", "n", "_", "f", "u", "z", "z", "y", "_">> \o keyword
                \o <<"_">> \o NumToString(len)
      [] pg = "map" ->
            <<"m", "a", "p", "_", "f", "u", "z", "z", "y", "_">> \o keyword
                \o <<"_">> \o NumToString(len)
      [] pg = "npc" ->
            <<"n", "p", "c", "_", "f", "u", "z", "z", "y", "_">> \o keyword
                \o <<"_">> \o NumToString(len)

\* A mutant of CacheKey: the key does not hold the length of the collection.
CacheKeyWithoutLength(pg, keyword, filterType, len) ==
    CASE pg = "item" -> <<"f", "u", "z", "z", "y", "_">> \o keyword
      [] pg = "mon" ->
            <<"m", "o", "n", "_", "f", "u", "z", "z", "y", "_">> \o keyword
                \o <<"_">> \o filterType
      [] pg = "map" -> <<"m", "a", "p", "_", "f", "u", "z", "z", "y", "_">> \o keyword
      [] pg = "npc" -> <<"n", "p", "c", "_", "f", "u", "z", "z", "y", "_">> \o keyword

\* The cache key of a page: `fuzzy_${keyword}_${Stdlist.length}` on the item
\* page, `mon_fuzzy_${keyword}_${filterType}_${Monlist.length}` on the monster
\* page, `map_fuzzy_...` and `npc_fuzzy_...` on the other two.
CacheKey(pg, keyword, filterType, len) ==
    CASE pg = "item" ->
            <<"f", "u", "z", "z", "y", "_">> \o keyword \o <<"_">> \o NumToString(len)
      [] pg = "mon" ->
            <<"m", "o", "n", "_", "f", "u", "z", "z", "y", "_">> \o keyword
                \o <<"_">> \o filterType \o <<"_">> \o NumToString(len)
      [] pg = "map" ->
            <<"m", "a", "p", "_", "f", "u", "z", "z", "y", "_">> \o keyword
                \o <<"_">> \o NumToString(len)
      [] pg = "npc" ->
            <<"n", "p", "c", "_", "f", "u", "z", "z", "y", "_">> \o keyword
                \o <<"_">> \o NumToString(len)

\* searchCache.has(key)
CacheHas(cache, key) == \E k \in 1..Len(cache) : cache[k].key = key

\* searchCache.get(key)
CacheGet(cache, key) == cache[CHOOSE k \in 1..Len(cache) : cache[k].key = key].frag

\* container.appendChild(cachedResult): the children of the cached fragment
\* move into the container, and the fragment the Map holds is left empty.
CacheAfterHit(cache, key) ==
    [k \in 1..Len(cache) |->
        IF cache[k].key = key THEN [cache[k] EXCEPT !.frag = <<>>] ELSE cache[k]]

\* A mutant of CacheEvict: the newest entry is deleted instead of the oldest.
CacheEvictNewest(cache) ==
    IF Len(cache) >= MAX_CACHE_SIZE THEN SubSeq(cache, 1, Len(cache) - 1) ELSE cache

\* A mutant of CacheEvict: the first key goes only when the cache holds more
\* than MAX_CACHE_SIZE entries.
CacheEvictWhenOver(cache) ==
    IF Len(cache) > MAX_CACHE_SIZE THEN Tail(cache) ELSE cache

\* if (searchCache.size >= MAX_CACHE_SIZE) delete the first key of the Map.
CacheEvict(cache) ==
    IF Len(cache) >= MAX_CACHE_SIZE THEN Tail(cache) ELSE cache

\* A mutant of CachePut: the fragment itself is stored, not a copy of it, so
\* displaying the fragment empties the stored one.
CachePutShared(cache, key, frag) ==
    Append(CacheEvict(cache), [key |-> key, frag |-> <<>>])

\* searchCache.set(cacheKey, fragment.cloneNode(true)) after the eviction; the
\* key is not in the Map when a search gets here.
CachePut(cache, key, frag) ==
    Append(CacheEvict(cache), [key |-> key, frag |-> cloneNode(frag)])

----------------------------------------------------------------------------
(* The search handlers *)

\* The two characters the monster page puts before the id of a monster it has
\* no name for.
UnnamedMonsterPrefix == <<"#", "m">>

\* The keys of monsterMap in the order Object.values walks them: the array
\* indices in ascending numeric order, then the other keys in insertion order.
ObjectKeyOrder(keys) ==
    SortSeq(SelectSeq(keys, IsArrayIndex),
            LAMBDA a, b : DigitsValue(a, 0) < DigitsValue(b, 0))
        \o SelectSeq(keys, LAMBDA key : ~IsArrayIndex(key))

\* createMonsterListFromStdlist(), called while Monlist is undefined or empty
\* (getMonsterName then finds no name): one row per distinct non-empty segment
\* of the mon fields of the items.
createMonsterListFromStdlist(S) ==
    IF S.def /\ Len(S.rows) > 0
    THEN LET segs == Flatten([i \in 1..Len(S.rows) |->
                        IF S.rows[i].mon # MinusOne
                        THEN SelectSeq(Split(S.rows[i].mon), LAMBDA x : x # <<>>)
                        ELSE <<>>])
             keys == ObjectKeyOrder(Dedupe(segs))
         IN  [k \in 1..Len(keys) |->
                [name |-> UnnamedMonsterPrefix \o keys[k], map |-> Undef,
                 std |-> Undef, bot |-> Undef, id |-> keys[k]]]
    ELSE <<>>

\* A mutant of ShouldDisplay: a monster whose std is null is displayed.
ShouldDisplayNullStd(pg, row, filterType) ==
    CASE pg = "item" -> row.mon # MinusOne \/ row.npc # MinusOne
      [] pg = "mon" -> filterType = FilterAll \/ (row.std # Undef /\ row.std # MinusOne)
      [] OTHER -> TRUE

\* A mutant of ShouldDisplay: every row is displayed.
ShouldDisplayAll(pg, row, filterType) == TRUE

\* The display filter of a page: the item page keeps the items with a monster
\* or an NPC, the monster page keeps every monster under 'all' and the
\* monsters with a std other than "-1" otherwise, the map and NPC pages keep
\* every row.
ShouldDisplay(pg, row, filterType) ==
    CASE pg = "item" -> row.mon # MinusOne \/ row.npc # MinusOne
      [] pg = "mon" -> \/ filterType = FilterAll
                       \/ (row.std # Undef /\ row.std # Null /\ row.std # MinusOne)
      [] OTHER -> TRUE

\* A mutant of FallbackScan: the loop does not apply the display filter.
FallbackScanUnfiltered(pg, rows, keyword, filterType) ==
    LET hit(i) == /\ rows[i + 1].name # <<>>
                  /\ rows[i + 1].name # Undef
                  /\ matchesFuzzily(ToLowerCase(rows[i + 1].name), keyword)
        ids == SelectSeq(Range(0, Len(rows) - 1), hit)
    IN  [k \in 1..Len(ids) |-> EntryNode(ids[k], rows[ids[k] + 1])]

\* The nodes the fallback loop appends when there is no index.
FallbackScan(pg, rows, keyword, filterType) ==
    LET hit(i) == /\ rows[i + 1].name # <<>>
                  /\ rows[i + 1].name # Undef
                  /\ matchesFuzzily(ToLowerCase(rows[i + 1].name), keyword)
                  /\ ShouldDisplay(pg, rows[i + 1], filterType)
        ids == SelectSeq(Range(0, Len(rows) - 1), hit)
    IN  [k \in 1..Len(ids) |-> EntryNode(ids[k], rows[ids[k] + 1])]

\* A mutant of IndexedScan: the matching rows in the order of the collection.
IndexedScanByPosition(pg, rows, byName, keyword, filterType) ==
    FallbackScan(pg, rows, keyword, filterType)

\* The nodes the loop over the name index appends: for every key that matches,
\* in the order of the Map, the rows listed under it that pass the filter.
IndexedScan(pg, rows, byName, keyword, filterType) ==
    Flatten([k \in 1..Len(byName) |->
        IF matchesFuzzily(byName[k].name, keyword)
        THEN LET ind == byName[k].indices
             IN  Flatten([j \in 1..Len(ind) |->
                    IF ind[j] < Len(rows) /\ ShouldDisplay(pg, rows[ind[j] + 1], filterType)
                    THEN <<EntryNode(ind[j], rows[ind[j] + 1])>>
                    ELSE <<>>])
        ELSE <<>>])

\* A mutant of AllScan: the rows are walked from the last to the first.
AllScanReversed(pg, rows, filterType) ==
    LET ids == SelectSeq(Range(0, Len(rows) - 1),
                         LAMBDA i : ShouldDisplay(pg, rows[i + 1], filterType))
    IN  [k \in 1..Len(ids) |->
            EntryNode(ids[Len(ids) + 1 - k], rows[ids[Len(ids) + 1 - k] + 1])]

\* The nodes the empty-keyword loop appends.
AllScan(pg, rows, filterType) ==
    LET ids == SelectSeq(Range(0, Len(rows) - 1),
                         LAMBDA i : ShouldDisplay(pg, rows[i + 1], filterType))
    IN  [k \in 1..Len(ids) |-> EntryNode(ids[k], rows[ids[k] + 1])]

\* A mutant of CacheClear: the empty keyword leaves the cache as it is.
CacheClearKeep(cache) == cache

\* searchCache.clear()
CacheClear(cache) == <<>>

\* The collection a page lists: Stdlist, Monlist, Maplist or Npclist.
Searched(pg, S, M, P, N) ==
    CASE pg = "item" -> S [] pg = "mon" -> M [] pg = "map" -> P [] pg = "npc" -> N

\* The collection the first test of a search handler looks at: the monster
\* page tests Stdlist, the other pages the collection they list.
Guarded(pg, S, M, P, N) ==
    CASE pg = "item" -> S [] pg = "mon" -> S [] pg = "map" -> P [] pg = "npc" -> N

\* getEquByKey / getMonByKey / getMapByKey / getNpcByKey on page pg, with the
\* globals S, M, P, N (Stdlist, Monlist, Maplist, Npclist), the index idx, the
\* cache, the text raw of #key and the value filterType of #monsterFilter:
\* the new Monlist, index and cache, what #equList shows, and the path taken.
GetByKey(pg, S, M, P, N, idx, cache, raw, filterType) ==
    LET guard == Guarded(pg, S, M, P, N)
    IN
    IF ~guard.def \/ Len(guard.rows) = 0
    THEN [Monlist |-> M, index |-> idx, cache |-> cache,
          equList |-> NoDataMessage, outcome |-> "nodata"]
    ELSE
    LET M1 == IF pg = "mon" /\ (~M.def \/ Len(M.rows) = 0)
              THEN Arr(createMonsterListFromStdlist(S))
              ELSE M
        list == Searched(pg, S, M1, P, N)
        idx1 == IF pg \in {"map", "npc"} /\ ~idx.built
                THEN initializeIndex(list, idx)
                ELSE idx
        keyword == NormalizeKeyword(raw)
        ft == IF pg = "mon" THEN FilterType(filterType) ELSE filterType
        key == CacheKey(pg, keyword, ft, Len(list.rows))
    IN
    IF keyword = <<>>
    THEN [Monlist |-> M1, index |-> idx1, cache |-> CacheClear(cache),
          equList |-> Listing(AllScan(pg, list.rows, ft)),
          outcome |-> "all"]
    ELSE IF CacheHas(cache, key)
    THEN [Monlist |-> M1, index |-> idx1, cache |-> CacheAfterHit(cache, key),
          equList |-> Listing(CacheGet(cache, key)), outcome |-> "hit"]
    ELSE
    LET frag == IF idx1.built
                THEN IndexedScan(pg, list.rows, idx1.byName, keyword, ft)
                ELSE FallbackScan(pg, list.rows, keyword, ft)
    IN  [Monlist |-> M1, index |-> idx1, cache |-> CachePut(cache, key, frag),
         equList |-> Listing(frag), outcome |-> "miss"]

----------------------------------------------------------------------------
(* The drill-downs of the item page *)

\* A list element of the page that shows nothing, a text, or entries.
ListEmpty == [text |-> "", nodes |-> <<>>]
ListText(t) == [text |-> t, nodes |-> <<>>]
ListNodes(nodes) == [text |-> "", nodes |-> nodes]

\* No drill-down has run.
NoDrill == [op |-> "none", id |-> 0, threw |-> FALSE]

\* s without the white space parseInt skips at its start.
RECURSIVE TrimStart(_)
TrimStart(s) ==
    IF s # <<>> /\ Head(s) = " " THEN TrimStart(Tail(s)) ELSE s

\* The digits s starts with.
DigitPrefix(s) ==
    LET n == CHOOSE n \in 0..Len(s) :
                /\ \A k \in 1..n : IsDigit(s[k])
                /\ n < Len(s) => ~IsDigit(s[n + 1])
    IN  SubSeq(s, 1, n)

\* parseInt(s, 10): leading white space and one sign are skipped, the digits
\* that follow are read up to the first other character, and the result is
\* NaN when there is no digit to read.
ParseInt(s) ==
    LET t == TrimStart(s)
        signed == t # <<>> /\ Head(t) \in {"-", "+"}
        digits == DigitPrefix(IF signed THEN Tail(t) ELSE t)
    IN  IF digits = <<>>
        THEN [nan |-> TRUE, val |-> 0]
        ELSE [nan |-> FALSE,
              val |-> IF signed /\ Head(t) = "-"
                      THEN 0 - DigitsValue(digits, 0)
                      ELSE DigitsValue(digits, 0)]

\* The entry a drill-down appends for segment i (counted from 0) of a relation
\* field, the segment naming row id of the target collection: its listId
\* attribute, its text `${i + 1}、${name}`, and the id its handler or its npcId
\* attribute carries.
RelatedNode(i, id, row) ==
    [listId |-> i, no |-> i + 1, name |-> row.name, target |-> id]

\* A mutant of RelatedNodes: an empty segment is read as the number 0.
RelatedNodesEmptyAsZero(field, target) ==
    LET segs == Split(field)
    IN  Flatten([i \in 1..Len(segs) |->
            LET id == IF segs[i] = <<>> THEN [nan |-> FALSE, val |-> 0]
                      ELSE ParseInt(segs[i])
            IN  IF ~id.nan /\ id.val >= 0 /\ id.val < Len(target.rows)
                THEN <<RelatedNode(i - 1, id.val, target.rows[id.val + 1])>>
                ELSE <<>>])

\* The loop over the segments of a relation field other than "-1": the empty
\* segments are passed over, the others go through parseInt, and a segment
\* adds an entry when the number is not NaN and target[number] is a row.
RelatedNodes(field, target) ==
    LET segs == Split(field)
    IN  Flatten([i \in 1..Len(segs) |->
            IF segs[i] # <<>>
            THEN LET id == ParseInt(segs[i])
                 IN  IF ~id.nan /\ id.val >= 0 /\ id.val < Len(target.rows)
                     THEN <<RelatedNode(i - 1, id.val, target.rows[id.val + 1])>>
                     ELSE <<>>
            ELSE <<>>])

\* The loop evaluates target[number] for a segment that is a number: with the
\* target collection undefined that raises an exception.
RelatedThrows(field, target) ==
    /\ ~target.def
    /\ \E i \in 1..Len(Split(field)) :
          Split(field)[i] # <<>> /\ ~ParseInt(Split(field)[i]).nan

\* The non-empty segments of a text field, one entry each.
TextSegments(field) == SelectSeq(Split(field), LAMBDA seg : seg # <<>>)

\* getMonByWp(itemId) with the globals S, M, N: what #monList and #npccon
\* show when it ends, and whether it ends in an exception.
getMonByWp(itemId, S, M, N) ==
    IF ~S.def \/ Len(S.rows) <= itemId
    THEN [monList |-> ListText("item data unavailable"), npccon |-> ListEmpty,
          threw |-> FALSE]
    ELSE
    LET item == S.rows[itemId + 1]
    IN
    IF item.mon # MinusOne /\ RelatedThrows(item.mon, M)
    THEN [monList |-> ListEmpty, npccon |-> ListEmpty, threw |-> TRUE]
    ELSE
    LET mons == IF item.mon # MinusOne
                THEN ListNodes(RelatedNodes(item.mon, M))
                ELSE ListText("not dropped by monsters")
    IN
    IF item.npc # MinusOne /\ RelatedThrows(item.npc, N)
    THEN [monList |-> mons, npccon |-> ListEmpty, threw |-> TRUE]
    ELSE [monList |-> mons,
          npccon |-> IF item.npc # MinusOne
                     THEN ListNodes(RelatedNodes(item.npc, N))
                     ELSE ListEmpty,
          threw |-> FALSE]

\* getMapByMon(monId) with the globals M, P: what #mapList and #dingshicon
\* show when it ends, and whether it ends in an exception. Reading a property
\* of Monlist[monId] when there is no such row, or calling split on a bot that
\* is absent, raises the exception.
getMapByMon(monId, M, P) ==
    IF M.def /\ Len(M.rows) < monId
    THEN [mapList |-> ListText("monster data unavailable"), dingshicon |-> <<>>,
          threw |-> FALSE]
    ELSE
    IF ~M.def \/ Len(M.rows) <= monId
    THEN [mapList |-> ListEmpty, dingshicon |-> <<>>, threw |-> TRUE]
    ELSE
    LET mon == M.rows[monId + 1]
    IN
    IF mon.map # MinusOne /\ RelatedThrows(mon.map, P)
    THEN [mapList |-> ListEmpty, dingshicon |-> <<>>, threw |-> TRUE]
    ELSE
    LET maps == IF mon.map # MinusOne
                THEN ListNodes(RelatedNodes(mon.map, P))
                ELSE ListText("no map")
    IN
    IF mon.bot = Undef
    THEN [mapList |-> maps, dingshicon |-> <<>>, threw |-> TRUE]
    ELSE [mapList |-> maps,
          dingshicon |-> IF mon.bot # MinusOne THEN TextSegments(mon.bot) ELSE <<>>,
          threw |-> FALSE]

\* getPathByMap(mapId) with the globals P, N: the fieldsets #mapTransferList
\* holds when it ends (one per related NPC, then one per step of the path),
\* and whether it ends in an exception; the fragment is appended by the last
\* statement, so an exception leaves the list empty.
getPathByMap(mapId, P, N) ==
    IF ~P.def \/ Len(P.rows) <= mapId
    THEN [mapTransferList |-> <<>>, threw |-> TRUE]
    ELSE
    LET map == P.rows[mapId + 1]
    IN
    IF \/ map.npc = Undef
       \/ map.npc # MinusOne /\ RelatedThrows(map.npc, N)
       \/ map.path = Undef
    THEN [mapTransferList |-> <<>>, threw |-> TRUE]
    ELSE
    LET npcs == IF map.npc # MinusOne THEN RelatedNodes(map.npc, N) ELSE <<>>
        path == IF map.path # MinusOne THEN TextSegments(map.path) ELSE <<>>
    IN  [mapTransferList |->
            [k \in 1..Len(npcs) |-> [legend |-> "npc", text |-> npcs[k].name,
                                     target |-> npcs[k].target]]
            \o [k \in 1..Len(path) |-> [legend |-> "path", text |-> path[k],
                                        target |-> 0]],
         threw |-> FALSE]

----------------------------------------------------------------------------
(* The drill-downs of the monster page and of the map page *)

\* The two characters a page puts before the number of a map it has no name
\* for.
UnnamedMapPrefix == <<"#", "p">>

\* A value that is a string, not empty and not "-1": the test
\* `x && x !== "-1"` on a field of a row.
IsRelation(field) == field \notin {Undef, Null, <<>>, MinusOne}

\* The entry a drill-down appends for the item of row i, the k-th it lists
\* (counted from 0): the text `${k + 1}、${name}` and, in row, the row the
\* entry was written for; listId is the listid attribute.
ItemNode(listId, k, i, row) ==
    [listId |-> listId, no |-> k + 1, name |-> row.name, row |-> i]

\* The loop over Stdlist of getStdByMon: the items whose mon field, split at
\* the commas, includes the string monIdStr, in the order of the rows.
\* byRow tells whether listid is the row (map page) or the count (monster page).
ItemsOfMonster(S, monIdStr, byRow) ==
    LET rows == SelectSeq(Range(0, Len(S.rows) - 1),
                    LAMBDA i : /\ IsRelation(S.rows[i + 1].mon)
                               /\ \E k \in 1..Len(Split(S.rows[i + 1].mon)) :
                                     Split(S.rows[i + 1].mon)[k] = monIdStr)
    IN  [k \in 1..Len(rows) |->
            ItemNode(IF byRow THEN rows[k] ELSE k - 1, k - 1, rows[k],
                     S.rows[rows[k] + 1])]

\* The loop over the segments of the map field of a monster on the monster
\* page: a segment that names a row of Maplist adds an entry with a handler,
\* any other segment that is not empty an entry without one.
MapsOfMonster(field, P) ==
    LET segs == Split(field)
    IN  Flatten([i \in 1..Len(segs) |->
            IF segs[i] # <<>>
            THEN LET id == ParseInt(segs[i])
                 IN  IF ~id.nan /\ P.def /\ id.val >= 0 /\ id.val < Len(P.rows)
                     THEN <<[listId |-> i - 1, no |-> i,
                             name |-> IF P.rows[id.val + 1].name \in {Undef, Null, <<>>}
                                      THEN UnnamedMapPrefix \o NumToString(id.val)
                                      ELSE P.rows[id.val + 1].name,
                             target |-> id.val]>>
                     ELSE <<[listId |-> NoHandler, no |-> i,
                             name |-> UnnamedMapPrefix \o segs[i],
                             target |-> NoHandler]>>
            ELSE <<>>])

\* getStdByMon(monId) of the monster page with the globals S, M, P: what
\* #monList, #mapList and #dingshicon show when it ends. The id the items are
\* asked for is the id field of the row when the row has one, and the row
\* number otherwise.
getStdByMon(monId, S, M, P) ==
    IF ~S.def \/ Len(S.rows) <= 0
    THEN [monList |-> ListText("item data unavailable"), mapList |-> ListEmpty,
          dingshicon |-> <<>>]
    ELSE
    LET hasRow == M.def /\ Len(M.rows) > monId
        actualMonId == IF hasRow /\ M.rows[monId + 1].id # Undef
                       THEN M.rows[monId + 1].id
                       ELSE NumToString(monId)
        items == ItemsOfMonster(S, actualMonId, FALSE)
        mons == IF items # <<>> THEN ListNodes(items)
                ELSE ListText("drops no items")
    IN
    IF ~hasRow
    THEN [monList |-> mons, mapList |-> ListText("no map"), dingshicon |-> <<>>]
    ELSE
    LET monsterData == M.rows[monId + 1]
        maps == IF IsRelation(monsterData.map)
                THEN MapsOfMonster(monsterData.map, P)
                ELSE <<>>
    IN  [monList |-> mons,
         mapList |-> IF maps # <<>> THEN ListNodes(maps) ELSE ListText("no map"),
         dingshicon |-> IF IsRelation(monsterData.bot)
                        THEN TextSegments(monsterData.bot)
                        ELSE <<>>]

\* The two characters the map page puts before the number of an NPC it has
\* no name for.
UnnamedNpcPrefix == <<"#", "n">>

\* The fieldsets getMonByMap appends to #mapTransferList for the map row map:
\* one per segment of its npc field that names a row of Npclist, then one per
\* segment of its path field that is not empty.
TransfersOfMap(map, N) ==
    LET npcs == IF IsRelation(map.npc) /\ N.def
                THEN RelatedNodes(map.npc, N)
                ELSE <<>>
        path == IF IsRelation(map.path) THEN TextSegments(map.path) ELSE <<>>
    IN  [k \in 1..Len(npcs) |->
            [legend |-> "npc",
             text |-> IF npcs[k].name \in {Undef, Null, <<>>}
                      THEN UnnamedNpcPrefix \o NumToString(npcs[k].target)
                      ELSE npcs[k].name,
             target |-> npcs[k].target]]
        \o [k \in 1..Len(path) |-> [legend |-> "path", text |-> path[k],
                                    target |-> 0]]

\* getMonByMap(mapId) of the map page with the globals M, P, N: what
\* #monList, #mapList and #mapTransferList show when it ends. The monsters
\* listed are those whose map field, split at the commas, includes
\* String(mapId). The map rows have no dingshi field, which leaves
\* #dingshicon as it is.
getMonByMap(mapId, M, P, N) ==
    IF ~P.def \/ Len(P.rows) <= 0
    THEN [monList |-> ListText("map data unavailable"), mapList |-> ListEmpty,
          mapTransferList |-> <<>>]
    ELSE IF Len(P.rows) <= mapId
    THEN [monList |-> ListText("no such map"), mapList |-> ListEmpty,
          mapTransferList |-> <<>>]
    ELSE
    LET rows == IF M.def
                THEN SelectSeq(Range(0, Len(M.rows) - 1),
                        LAMBDA i : /\ IsRelation(M.rows[i + 1].map)
                                   /\ \E k \in 1..Len(Split(M.rows[i + 1].map)) :
                                         Split(M.rows[i + 1].map)[k] = NumToString(mapId))
                ELSE <<>>
    IN  [monList |-> IF rows # <<>>
                     THEN ListNodes([k \in 1..Len(rows) |->
                              [listId |-> k - 1, no |-> k,
                               name |-> M.rows[rows[k] + 1].name, target |-> rows[k]]])
                     ELSE ListText("no monsters on this map"),
         mapList |-> ListText("select a monster"),
         mapTransferList |-> TransfersOfMap(P.rows[mapId + 1], N)]

\* getStdByMon(monId) of the map page with the global S: what #mapList shows
\* when it ends.
getStdByMonOfMap(monId, S) ==
    IF S.def /\ Len(S.rows) > 0
    THEN LET items == ItemsOfMonster(S, NumToString(monId), TRUE)
         IN  IF items # <<>> THEN ListNodes(items) ELSE ListText("drops no items")
    ELSE ListText("item data unavailable")

----------------------------------------------------------------------------
(* Data files *)

Item(name, mon, npc) == [name |-> name, mon |-> mon, npc |-> npc]
Monster(name, map, std, bot) ==
    [name |-> name, map |-> map, std |-> std, bot |-> bot, id |-> Undef]
MapRow(name, npc, path) == [name |-> name, npc |-> npc, path |-> path]
Npc(name) == [name |-> name]

Blacksmith == <<"B", "l", "a", "c", "k", "s", "m", "i", "t", "h">>

\* A data file with names that differ only in case, a name with a character
\* sanitizeInput escapes, items without monster or NPC, and relation fields
\* with an empty segment, with a number that is no row of the target, or with
\* a segment that starts with digits and goes on with another character.
Data1 ==
    [Stdlist |-> << Item(<<"A", "b">>, <<"2", ",", ",", "5">>, MinusOne),
                    Item(<<"b">>, <<"9", ",", "1">>, MinusOne),
                    Item(<<"a", "B">>, MinusOne, <<"1", "x", ",", "0">>),
                    Item(<<"a", "<", "b">>, <<"0", ",", "3">>, MinusOne),
                    Item(<<"B">>, MinusOne, MinusOne) >>,
     Monlist |-> << Monster(<<"A", "b">>, <<"1", ",", ",", "0">>, <<"3">>, MinusOne),
                    Monster(<<"b">>, MinusOne, MinusOne, MinusOne),
                    Monster(<<"a", "B">>, <<"0">>, <<"0">>, <<"x">>),
                    Monster(<<"a", "<", "b">>, MinusOne, Undef, Undef),
                    Monster(<<"B">>, <<"1">>, Null, MinusOne),
                    Monster(<<"b">>, <<"2">>, <<"0">>, MinusOne) >>,
     Maplist |-> << MapRow(<<"A", "b">>, <<"1", ",", ",", "0">>, MinusOne),
                    MapRow(<<"b">>, MinusOne, <<"p">>),
                    MapRow(<<"a", "B">>, Undef, Undef) >>,
     Npclist |-> << Npc(<<"A", "b">>), Npc(<<"b">>), Npc(<<"a", "B">>) >>]

\* rows with the names moved one row up: a list of the same length in which
\* no position keeps its name.
Renamed(rows) ==
    [k \in 1..Len(rows) |-> [rows[k] EXCEPT !.name = rows[(k % Len(rows)) + 1].name]]

\* A data file with collections as long as those of Data1 and other names.
Data2 ==
    [Stdlist |-> Renamed(Data1.Stdlist), Monlist |-> Renamed(Data1.Monlist),
     Maplist |-> Renamed(Data1.Maplist), Npclist |-> Renamed(Data1.Npclist)]

\* The data file of the worked example: one item an NPC gives, no monsters
\* and no maps.
Data3 ==
    [Stdlist |-> << Item(FireSword, MinusOne, <<"0">>) >>,
     Monlist |-> << >>,
     Maplist |-> << >>,
     Npclist |-> << Npc(Blacksmith) >>]

\* A data file without items: isValidGameData accepts an empty Stdlist next
\* to monsters, maps and NPCs.
Data4 ==
    [Stdlist |-> << >>,
     Monlist |-> << Monster(<<"b">>, <<"0">>, <<"0">>, MinusOne),
                    Monster(<<"a", "B">>, MinusOne, MinusOne, MinusOne) >>,
     Maplist |-> << MapRow(<<"b">>, MinusOne, MinusOne) >>,
     Npclist |-> << Npc(<<"b">>) >>]

\* A data file without monsters whose items name monsters: the monster page
\* derives its list from the items. Some rows have an empty name.
Data5 ==
    [Stdlist |-> << Item(<<"b">>, <<"1", ",", "0">>, MinusOne),
                    Item(<<>>, <<"0">>, MinusOne),
                    Item(<<"A", "b">>, <<"1">>, <<"0">>),
                    Item(<<"B">>, MinusOne, <<"0">>) >>,
     Monlist |-> << >>,
     Maplist |-> << MapRow(<<"b">>, MinusOne, MinusOne), MapRow(<<>>, MinusOne, MinusOne),
                    MapRow(<<"B">>, MinusOne, MinusOne) >>,
     Npclist |-> << Npc(<<"b">>), Npc(<<>>), Npc(<<"B">>) >>]

\* A data file with an item whose mon field has a segment that starts with
\* the number of a monster and goes on with another character, and with a
\* monster that has a std field and is named by no item.
Data6 ==
    [Stdlist |-> << Item(<<"b">>, <<"0", ",", "1", "x">>, MinusOne),
                    Item(<<"B">>, <<"1">>, MinusOne) >>,
     Monlist |-> << Monster(<<"b">>, <<"0">>, <<"0">>, MinusOne),
                    Monster(<<"B">>, <<"0">>, <<"0", ",", "1">>, <<"x">>),
                    Monster(<<"a", "B">>, MinusOne, <<"0">>, MinusOne) >>,
     Maplist |-> << MapRow(<<"b">>, MinusOne, MinusOne) >>,
     Npclist |-> << Npc(<<"b">>) >>]

\* The data files a fetch can return.
DataFiles == {Data1, Data2, Data3, Data4, Data5}

\* The texts the user types into #key.
Keywords == {<<>>, <<"b">>, <<"A", "<">>, Kw_firesw}

Pages == {"item", "mon", "map", "npc"}

\* Searches the user makes in one page session.
MaxSearches == 3

\* Calls of loadGameData in one page session.
MaxLoads == 2

----------------------------------------------------------------------------
(* One page session *)

\* The page after its script has run and the ready handler has found no
\* Stdlist and called loadGameData.
Init ==
    /\ MatchOff
    /\ SanitizeOff
    /\ NavOff
    /\ page \in Pages
    /\ Stdlist = NoList
    /\ Monlist = NoList
    /\ Maplist = NoList
    /\ Npclist = NoList
    /\ indexedData = NullIndex
    /\ searchCache = <<>>
    /\ keyInput = <<>>
    /\ monsterFilter = (IF page = "mon" THEN FilterDropsItems ELSE <<>>)
    /\ equList = Listing(<<>>)
    /\ inFlight = 1
    /\ outcome = "none"
    /\ installed = [taken |-> FALSE, list |-> <<>>, index |-> <<>>, cache |-> <<>>,
                    failed |-> "no"]
    /\ stamps = {}
    /\ nSearch = 0
    /\ nLoad = 1
    /\ nTyped = 0
    /\ monList = ListEmpty
    /\ npccon = ListEmpty
    /\ mapList = ListEmpty
    /\ dingshicon = <<>>
    /\ mapTransferList = <<>>
    /\ drill = NoDrill

\* What a handler that has searched leaves on record about the entries of the
\* cache: an entry stored by this search gets the length of the collection
\* searched, the record of an entry no longer cached is dropped, and the
\* entries stored earlier are marked when this handler has changed the length.
Stamped ==
    stamps' =
        LET len == Len(Searched(page, Stdlist, Monlist, Maplist, Npclist).rows)
            newLen == Len(Searched(page', Stdlist', Monlist', Maplist', Npclist').rows)
        IN  {[s EXCEPT !.fresh = s.fresh /\ newLen = len] :
                s \in {t \in stamps : CacheHas(searchCache', t.key)}}
            \cup {[key |-> searchCache'[k].key, len |-> newLen, fresh |-> TRUE] :
                    k \in {j \in 1..Len(searchCache') :
                              ~CacheHas(searchCache, searchCache'[j].key)}}

\* The assignments of a search handler, r being what GetByKey returns.
Handled(r) ==
    /\ Monlist' = r.Monlist
    /\ indexedData' = r.index
    /\ searchCache' = r.cache
    /\ equList' = r.equList
    /\ outcome' = r.outcome

\* The handlers of #search and #monsterFilter empty #monList, #mapList and
\* #mapTransferList (and #equList) before they search.
ListsEmptied ==
    /\ monList' = ListEmpty
    /\ mapList' = ListEmpty
    /\ mapTransferList' = <<>>
    /\ drill' = NoDrill
    /\ UNCHANGED <<npccon, dingshicon>>

\* The user types kw into #key and clicks #search: the click handler empties
\* the lists and calls the search of the page.
Click(kw) ==
    /\ keyInput' = kw
    /\ ListsEmptied
    /\ Handled(GetByKey(page, Stdlist, Monlist, Maplist, Npclist, indexedData,
                        searchCache, kw, monsterFilter))
    /\ nSearch' = nSearch + 1
    /\ UNCHANGED <<page, Stdlist, Maplist, Npclist, monsterFilter, inFlight,
                   installed, nLoad>>
    /\ UNCHANGED fvars
    /\ Stamped

Search(kw) ==
    /\ nSearch < MaxSearches
    /\ Click(kw)
    /\ UNCHANGED nTyped

\* The user picks another value of #monsterFilter: the change handler empties
\* the lists and calls getMonByKey.
ChangeFilter(f) ==
    /\ page = "mon"
    /\ f # monsterFilter
    /\ nSearch < MaxSearches
    /\ monsterFilter' = f
    /\ ListsEmptied
    /\ Handled(GetByKey(page, Stdlist, Monlist, Maplist, Npclist, indexedData,
                        searchCache, keyInput, f))
    /\ nSearch' = nSearch + 1
    /\ UNCHANGED <<page, Stdlist, Maplist, Npclist, keyInput, inFlight,
                   installed, nLoad, nTyped>>
    /\ UNCHANGED fvars
    /\ Stamped

\* loadGameData() with a valid version cookie: the fetch is started.
LoadGameData ==
    /\ nLoad < MaxLoads
    /\ inFlight' = inFlight + 1
    /\ nLoad' = nLoad + 1
    /\ UNCHANGED <<page, Stdlist, Monlist, Maplist, Npclist, indexedData,
                   searchCache, keyInput, monsterFilter, equList, outcome,
                   installed, stamps, nSearch, nTyped>>
    /\ UNCHANGED <<fvars, dvars>>

\* isValidGameData(data): the four collections are arrays, every item has a
\* name, a mon and an npc that are strings, every monster a name and a map,
\* every map and every NPC a name.
isValidGameData(d) ==
    /\ {"Stdlist", "Monlist", "Maplist", "Npclist"} \subseteq DOMAIN d
    /\ \A i \in 1..Len(d.Stdlist) :
          /\ d.Stdlist[i].name \notin {Undef, Null}
          /\ d.Stdlist[i].mon \notin {Undef, Null}
          /\ d.Stdlist[i].npc \notin {Undef, Null}
    /\ \A i \in 1..Len(d.Monlist) :
          /\ d.Monlist[i].name \notin {Undef, Null}
          /\ d.Monlist[i].map \notin {Undef, Null}
    /\ \A i \in 1..Len(d.Maplist) : d.Maplist[i].name \notin {Undef, Null}
    /\ \A i \in 1..Len(d.Npclist) : d.Npclist[i].name \notin {Undef, Null}

\* A fetch resolves with the valid data file d: the four globals are
\* assigned, initializeIndex runs, and the search of the page runs.
FetchInstall(d) ==
    /\ inFlight > 0
    /\ isValidGameData(d)
    /\ LET S == Arr(d.Stdlist)
           M == Arr(d.Monlist)
           P == Arr(d.Maplist)
           N == Arr(d.Npclist)
           idx == initializeIndex(Searched(page, S, M, P, N), indexedData)
       IN  /\ Stdlist' = S
           /\ Maplist' = P
           /\ Npclist' = N
           /\ installed' = [taken |-> TRUE, list |-> Searched(page, S, M, P, N).rows,
                             index |-> idx, cache |-> searchCache, failed |-> "no"]
           /\ Handled(GetByKey(page, S, M, P, N, idx, searchCache, keyInput,
                               monsterFilter))
    /\ inFlight' = inFlight - 1
    /\ UNCHANGED <<page, keyInput, monsterFilter, nSearch, nLoad, nTyped>>
    /\ UNCHANGED <<fvars, dvars>>
    /\ Stamped

\* A mutant of Restore: the catch handler leaves the new Monlist in place.
RestoreButMonlist(original, assigned) ==
    [original EXCEPT !.Monlist = assigned.Monlist]

\* The catch block of the install: the four globals get the values they had
\* before the assignments.
Restore(original, assigned) == original

\* A fetch resolves with the valid data file d, the four globals are assigned
\* and initializeIndex runs, and then the search of the page raises an
\* exception at its first access to the document: the catch block restores
\* the four globals and rethrows, and the catch handler of the fetch alerts.
\* The index initializeIndex built stays.
FetchRollback(d) ==
    /\ inFlight > 0
    /\ LET original == [Stdlist |-> Stdlist, Monlist |-> Monlist,
                        Maplist |-> Maplist, Npclist |-> Npclist]
           assigned == [Stdlist |-> Arr(d.Stdlist), Monlist |-> Arr(d.Monlist),
                        Maplist |-> Arr(d.Maplist), Npclist |-> Arr(d.Npclist)]
           restored == Restore(original, assigned)
       IN  /\ indexedData' = initializeIndex(
                    Searched(page, assigned.Stdlist, assigned.Monlist,
                             assigned.Maplist, assigned.Npclist), indexedData)
           /\ Stdlist' = restored.Stdlist
           /\ Monlist' = restored.Monlist
           /\ Maplist' = restored.Maplist
           /\ Npclist' = restored.Npclist
    /\ outcome' = "threw"
    /\ inFlight' = inFlight - 1
    /\ installed' = [installed EXCEPT !.failed = "no"]
    /\ UNCHANGED <<page, searchCache, keyInput, monsterFilter, equList,
                   stamps, nSearch, nLoad, nTyped>>
    /\ UNCHANGED <<fvars, dvars>>

\* The ways a fetch fails before isValidGameData is asked: a response that is
\* not ok, an empty text, a text that does not parse.
FetchFailures == {"response", "empty", "parse"}

\* A fetch fails in the way cause: the catch handler alerts and nothing is
\* assigned.
FetchFail(cause) ==
    /\ inFlight > 0
    /\ inFlight' = inFlight - 1
    /\ installed' = [installed EXCEPT !.failed = cause]
    /\ UNCHANGED <<page, Stdlist, Monlist, Maplist, Npclist, indexedData,
                   searchCache, keyInput, monsterFilter, equList, outcome,
                   stamps, nSearch, nLoad, nTyped>>
    /\ UNCHANGED <<fvars, dvars>>

\* A data file that defines no Monlist.
Bad1 ==
    [Stdlist |-> << Item(<<"b">>, <<"0">>, MinusOne) >>,
     Maplist |-> << MapRow(<<"b">>, MinusOne, MinusOne) >>,
     Npclist |-> << Npc(<<"b">>) >>]

\* A data file with an item that has no npc.
Bad2 ==
    [Stdlist |-> << Item(<<"b">>, <<"0">>, MinusOne), Item(<<"B">>, <<"0">>, Undef) >>,
     Monlist |-> << Monster(<<"b">>, <<"0">>, <<"0">>, MinusOne) >>,
     Maplist |-> << MapRow(<<"b">>, MinusOne, MinusOne) >>,
     Npclist |-> << Npc(<<"b">>) >>]

\* A data file with a monster that has no map.
Bad3 ==
    [Stdlist |-> << Item(<<"b">>, <<"0">>, MinusOne) >>,
     Monlist |-> << Monster(<<"b">>, Undef, <<"0">>, MinusOne) >>,
     Maplist |-> << MapRow(<<"b">>, MinusOne, MinusOne) >>,
     Npclist |-> << Npc(<<"b">>) >>]

BadFiles == {Bad1, Bad2, Bad3}

\* window.X = data.X || [] for the collection named f.
Assigned(d, f) == IF f \in DOMAIN d THEN Arr(d[f]) ELSE Arr(<<>>)

\* A mutant of Rejected: the collections are assigned before the data is
\* validated.
RejectedAfterAssignment(original, d) ==
    [Stdlist |-> Assigned(d, "Stdlist"), Monlist |-> Assigned(d, "Monlist"),
     Maplist |-> Assigned(d, "Maplist"), Npclist |-> Assigned(d, "Npclist")]

\* The four globals after isValidGameData has rejected the data: the
\* else branch throws before anything is assigned.
Rejected(original, d) == original

\* A fetch resolves with a data file isValidGameData rejects: the catch handler
\* alerts.
FetchRejected(d) ==
    /\ inFlight > 0
    /\ ~isValidGameData(d)
    /\ LET original == [Stdlist |-> Stdlist, Monlist |-> Monlist,
                        Maplist |-> Maplist, Npclist |-> Npclist]
           after == Rejected(original, d)
       IN  /\ Stdlist' = after.Stdlist
           /\ Monlist' = after.Monlist
           /\ Maplist' = after.Maplist
           /\ Npclist' = after.Npclist
    /\ inFlight' = inFlight - 1
    /\ installed' = [installed EXCEPT !.failed = "invalid"]
    /\ UNCHANGED <<page, indexedData, searchCache, keyInput, monsterFilter,
                   equList, outcome, stamps, nSearch, nLoad, nTyped>>
    /\ UNCHANGED <<fvars, dvars>>

\* The ways loadGameData ends before it fetches: no version cookie, a version
\* isValidVersion rejects.
Refusals == {"nocookie", "badversion"}

\* loadGameData() ends before it fetches: it alerts and returns.
LoadRefused(cause) ==
    /\ nLoad < MaxLoads
    /\ nLoad' = nLoad + 1
    /\ installed' = [installed EXCEPT !.failed = cause]
    /\ UNCHANGED <<page, Stdlist, Monlist, Maplist, Npclist, indexedData,
                   searchCache, keyInput, monsterFilter, equList, inFlight,
                   outcome, stamps, nSearch, nTyped>>
    /\ UNCHANGED <<fvars, dvars>>

Next ==
    \/ \E kw \in Keywords : Search(kw)
    \/ \E f \in {FilterAll, FilterDropsItems} : ChangeFilter(f)
    \/ LoadGameData
    \/ \E d \in DataFiles : FetchInstall(d)
    \/ \E d \in DataFiles : FetchRollback(d)
    \/ FetchFail("response")

Spec == Init /\ [][Next]_vars

----------------------------------------------------------------------------
(* A session of drill-downs on the item page *)

\* The user clicks the entry of item itemId in #equList: its handler calls
\* getMonByWp(itemId), which empties the lists and fills #monList and #npccon.
GetMonByWp(itemId) ==
    /\ page = "item"
    /\ \E k \in 1..Len(equList.nodes) : equList.nodes[k].onclick = itemId
    /\ LET r == getMonByWp(itemId, Stdlist, Monlist, Npclist)
       IN  /\ monList' = r.monList
           /\ npccon' = r.npccon
           /\ drill' = [op |-> "getMonByWp", id |-> itemId, threw |-> r.threw]
    /\ mapList' = ListEmpty
    /\ mapTransferList' = <<>>
    /\ UNCHANGED <<pvars, nTyped, dingshicon>>
    /\ UNCHANGED fvars

\* The user clicks the entry of monster monId in #monList: its handler calls
\* getMapByMon(monId), which empties #mapList, #mapTransferList and
\* #dingshicon and fills #mapList and #dingshicon.
GetMapByMon(monId) ==
    /\ page = "item"
    /\ \E k \in 1..Len(monList.nodes) : monList.nodes[k].target = monId
    /\ LET r == getMapByMon(monId, Monlist, Maplist)
       IN  /\ mapList' = r.mapList
           /\ dingshicon' = r.dingshicon
           /\ drill' = [op |-> "getMapByMon", id |-> monId, threw |-> r.threw]
    /\ mapTransferList' = <<>>
    /\ UNCHANGED <<pvars, nTyped, monList, npccon>>
    /\ UNCHANGED fvars

\* The user clicks the entry of map mapId in #mapList: its handler calls
\* getPathByMap(mapId), which empties and fills #mapTransferList.
GetPathByMap(mapId) ==
    /\ page = "item"
    /\ \E k \in 1..Len(mapList.nodes) : mapList.nodes[k].target = mapId
    /\ LET r == getPathByMap(mapId, Maplist, Npclist)
       IN  /\ mapTransferList' = r.mapTransferList
           /\ drill' = [op |-> "getPathByMap", id |-> mapId, threw |-> r.threw]
    /\ UNCHANGED <<pvars, nTyped, monList, npccon, mapList, dingshicon>>
    /\ UNCHANGED fvars

\* The rows the drill-downs of one session can reach.
MaxRows == 6

NextDrill ==
    \/ \E d \in DataFiles : FetchInstall(d)
    \/ \E kw \in Keywords : Search(kw)
    \/ \E itemId \in 0..(MaxRows - 1) : GetMonByWp(itemId)
    \/ \E monId \in 0..(MaxRows - 1) : GetMapByMon(monId)
    \/ \E mapId \in 0..(MaxRows - 1) : GetPathByMap(mapId)

SpecDrill == Init /\ [][NextDrill]_vars

----------------------------------------------------------------------------
(* The navigation: initialize_page and the functions it calls. The script
   declares each of them twice; a call runs the declaration that comes last. *)

Version(name, data, gllink) == [name |-> name, data |-> data, gllink |-> gllink]

\* The values of version_list: not defined, an empty array, two versions of
\* which one has a guide and a name sanitizeInput escapes, and three versions
\* of which one has no name and the two others share theirs.
VersionLists ==
    { NoList,
      Arr(<<>>),
      Arr(<< Version(<<"a">>, <<"d", "1">>, <<>>),
             Version(<<"b", "<">>, <<"d", "2">>, <<"g">>) >>),
      Arr(<< Version(<<"a">>, <<"d", "1">>, Undef),
             Version(Undef, <<"d", "2">>, Undef),
             Version(<<"a">>, <<"d", "2">>, Undef) >>) }

\* The values of the parameter v of the URL: absent, the data of a version,
\* the data of no version.
VersionParams == {<<>>, <<"d", "2">>, <<"z">>}

\* The pages of the navigation.
PageNames == {"index.html", "stditem.html"}

\* The timer is followed until initialize_page has been called this many
\* times in one page session.
MaxCalls == 4

\* typeof version_list !== "undefined" && Array.isArray(version_list) &&
\* version_list.length > 0
HasVersions(list) == list.def /\ Len(list.rows) > 0

\* The positions (from 0) of the versions the loops write: those with a name
\* that is a string.
NamedVersions(list) ==
    SelectSeq(Range(0, Len(list.rows) - 1),
              LAMBDA i : list.rows[i + 1].name \notin {Undef, Null})

\* What a loop over version_list writes: for every version with a name, its
\* position and its sanitized name; wrapped tells whether the button is in a
\* div (load_server_data) or not (handle_version_selection).
VersionEntries(list, wrapped) ==
    [k \in 1..Len(NamedVersions(list)) |->
        [index |-> NamedVersions(list)[k],
         name |-> sanitizeInput(list.rows[NamedVersions(list)[k] + 1].name),
         wrapped |-> wrapped]]

\* A mutant of handle_version_selection: the declaration without the flag,
\* which appends the versions to the dropdown at every call.
handle_version_selection_unflagged(list, populated, child, buttons) ==
    IF HasVersions(list)
    THEN [buttons |-> VersionEntries(list, FALSE),
          child |-> child \o VersionEntries(list, FALSE),
          populated |-> populated,
          alerted |-> FALSE]
    ELSE [buttons |-> buttons, child |-> child, populated |-> populated,
          alerted |-> TRUE]

\* handle_version_selection() with the global list, the flag populated, the
\* entries child of #version-child-list and the buttons of .version_list:
\* the flag, the entries and the buttons when it ends, and whether it alerted.
handle_version_selection(list, populated, child, buttons) ==
    IF HasVersions(list)
    THEN [buttons |-> VersionEntries(list, FALSE),
          child |-> IF ~populated
                    THEN child \o VersionEntries(list, FALSE)
                    ELSE child,
          populated |-> TRUE,
          alerted |-> FALSE]
    ELSE [buttons |-> buttons, child |-> child, populated |-> populated,
          alerted |-> TRUE]

\* show_guide_if_available() with guides entries in .layui-nav: one more
\* when a version has a guide link.
show_guide_if_available(list, guides) ==
    IF /\ HasVersions(list)
       /\ \E i \in 1..Len(list.rows) : list.rows[i].gllink \notin {Undef, Null, <<>>}
    THEN guides + 1
    ELSE guides

\* load_server_data(): the buttons of .version_list when it ends.
load_server_data(list, buttons) ==
    IF HasVersions(list) THEN VersionEntries(list, TRUE) ELSE buttons

\* safelyGetPropertyName(obj, prop) for a property value: the empty string
\* for null and undefined, the value otherwise.
safelyGetPropertyName(value) == IF value \in {Undef, Null} THEN <<>> ELSE value

\* The cookies after the loop of initialize_page over version_list: those of
\* the first version whose data is the parameter v, when there is one.
CookieOfParam(list, param, cookie) ==
    IF param # <<>> /\ list.def /\ \E i \in 1..Len(list.rows) : list.rows[i].data = param
    THEN LET i == CHOOSE i \in 1..Len(list.rows) :
                    /\ list.rows[i].data = param
                    /\ \A j \in 1..(i - 1) : list.rows[j].data # param
         IN  [name |-> safelyGetPropertyName(list.rows[i].name),
              data |-> safelyGetPropertyName(list.rows[i].data)]
    ELSE cookie

\* The switch of initialize_page: the title of the page.
TitleOf(name) ==
    CASE name = "index.html" -> "index"
      [] name = "stditem.html" -> "item"
      [] OTHER -> "other"

\* The text of "not selected".
Unselected == <<"?">>

\* updateRightNavItem(): the group link on the index page, the name of the
\* current version on the other pages.
updateRightNavItem(name, cookie) ==
    IF name = "index.html"
    THEN [kind |-> "qq", name |-> <<>>]
    ELSE [kind |-> "version",
          name |-> sanitizeInput(IF cookie.name \in {Undef, <<>>}
                                 THEN Unselected
                                 ELSE cookie.name)]

\* initialize_page(): the title, show_guide_if_available,
\* handle_version_selection, the cookies of the parameter v, and
\* load_server_data.
InitializePage ==
    /\ title' = TitleOf(pageName)
    /\ navGuides' = show_guide_if_available(version_list, navGuides)
    /\ LET h == handle_version_selection(version_list, versionListPopulated,
                                         versionChildList, versionButtons)
       IN  /\ versionListPopulated' = h.populated
           /\ versionChildList' = h.child
           /\ alerts' = alerts + (IF h.alerted THEN 1 ELSE 0)
           /\ versionButtons' = load_server_data(version_list, h.buttons)
    /\ versionCookie' = CookieOfParam(version_list, versionParam, versionCookie)
    /\ nCalls' = nCalls + 1
    /\ UNCHANGED <<pageName, version_list, versionParam>>
    /\ UNCHANGED <<mvars, svars, pvars, nTyped, dvars>>

\* The first ready handler of the script: initialize_page().
ReadyFirst ==
    /\ readyRun = 0
    /\ readyRun' = 1
    /\ InitializePage
    /\ UNCHANGED rightNav

\* The second ready handler of the script: initialize_page() and
\* updateRightNavItem().
ReadySecond ==
    /\ readyRun = 1
    /\ readyRun' = 2
    /\ InitializePage
    /\ rightNav' = updateRightNavItem(pageName, versionCookie')

\* The timer of setInterval(initialize_page, 2000) fires.
TimerTick ==
    /\ nCalls < MaxCalls
    /\ InitializePage
    /\ UNCHANGED <<rightNav, readyRun>>

InitNav ==
    /\ pageName \in PageNames
    /\ version_list \in VersionLists
    /\ versionParam \in VersionParams
    /\ versionListPopulated = FALSE
    /\ versionChildList = <<>>
    /\ versionButtons = <<>>
    /\ navGuides = 0
    /\ title = ""
    /\ rightNav = [kind |-> "none", name |-> <<>>]
    /\ versionCookie = NoCookie
    /\ alerts = 0
    /\ readyRun = 0
    /\ nCalls = 0
    /\ MatchOff
    /\ PageOff
    /\ SanitizeOff

NextNav ==
    \/ ReadyFirst
    \/ ReadySecond
    \/ TimerTick

SpecNav == InitNav /\ [][NextNav]_vars

----------------------------------------------------------------------------
(* A session of drill-downs from items to monsters and from monsters to items *)

\* The user clicks the entry of monster monId in #equList of the monster
\* page: its handler calls getStdByMon(monId), which empties the lists and
\* fills #monList, #mapList and #dingshicon.
GetStdByMon(monId) ==
    /\ page = "mon"
    /\ \E k \in 1..Len(equList.nodes) : equList.nodes[k].onclick = monId
    /\ LET r == getStdByMon(monId, Stdlist, Monlist, Maplist)
       IN  /\ monList' = r.monList
           /\ mapList' = r.mapList
           /\ dingshicon' = r.dingshicon
    /\ drill' = [op |-> "getStdByMon", id |-> monId, threw |-> FALSE]
    /\ mapTransferList' = <<>>
    /\ UNCHANGED <<pvars, nTyped, npccon>>
    /\ UNCHANGED fvars

\* The user clicks the entry of map mapId in #equList of the map page: its
\* handler calls getMonByMap(mapId), which empties the lists and fills
\* #monList, #mapList and #mapTransferList.
GetMonByMap(mapId) ==
    /\ page = "map"
    /\ \E k \in 1..Len(equList.nodes) : equList.nodes[k].onclick = mapId
    /\ LET r == getMonByMap(mapId, Monlist, Maplist, Npclist)
       IN  /\ monList' = r.monList
           /\ mapList' = r.mapList
           /\ mapTransferList' = r.mapTransferList
    /\ drill' = [op |-> "getMonByMap", id |-> mapId, threw |-> FALSE]
    /\ UNCHANGED <<pvars, nTyped, npccon, dingshicon>>
    /\ UNCHANGED fvars

\* The user clicks the entry of monster monId in #monList of the map page:
\* its handler calls getStdByMon(monId), which empties and fills #mapList.
GetStdByMonOfMap(monId) ==
    /\ page = "map"
    /\ \E k \in 1..Len(monList.nodes) : monList.nodes[k].target = monId
    /\ mapList' = getStdByMonOfMap(monId, Stdlist)
    /\ drill' = [op |-> "getStdByMonOfMap", id |-> monId, threw |-> FALSE]
    /\ UNCHANGED <<pvars, nTyped, monList, npccon, dingshicon, mapTransferList>>
    /\ UNCHANGED fvars

\* The data files of a session of drill-downs.
InverseFiles == {Data1, Data5, Data6}

\* The texts the user types into #key in a session of drill-downs.
InverseKeywords == {<<>>, <<"b">>}

InitInverse ==
    /\ Init
    /\ page \in {"item", "mon", "map"}

NextInverse ==
    \/ \E d \in InverseFiles : FetchInstall(d)
    \/ \E kw \in InverseKeywords : Search(kw)
    \/ \E f \in {FilterAll, FilterDropsItems} : ChangeFilter(f)
    \/ \E itemId \in 0..(MaxRows - 1) : GetMonByWp(itemId)
    \/ \E monId \in 0..(MaxRows - 1) : GetStdByMon(monId)
    \/ \E mapId \in 0..(MaxRows - 1) : GetMonByMap(mapId)
    \/ \E monId \in 0..(MaxRows - 1) : GetStdByMonOfMap(monId)

SpecInverse == InitInverse /\ [][NextInverse]_vars

----------------------------------------------------------------------------
(* A session on the monster page *)

\* The values #monsterFilter takes.
FilterValues == {FilterAll, FilterDropsItems, FilterOther, <<>>}

InitFilter ==
    /\ Init
    /\ page = "mon"

NextFilter ==
    \/ \E d \in DataFiles : FetchInstall(d)
    \/ \E kw \in Keywords : Search(kw)
    \/ \E f \in FilterValues : ChangeFilter(f)

SpecFilter == InitFilter /\ [][NextFilter]_vars

----------------------------------------------------------------------------
(* A session in which calls of loadGameData fail *)

LoadFiles == {Data1, Data3}

LoadKeywords == {<<>>, <<"b">>}

NextLoad ==
    \/ LoadGameData
    \/ \E c \in Refusals : LoadRefused(c)
    \/ \E d \in LoadFiles : FetchInstall(d)
    \/ \E c \in FetchFailures : FetchFail(c)
    \/ \E d \in BadFiles : FetchRejected(d)
    \/ \E kw \in LoadKeywords : Search(kw)

SpecLoad == Init /\ [][NextLoad]_vars

----------------------------------------------------------------------------
(* A session in which data files of different lengths replace each other *)

\* Calls of loadGameData in such a session.
MaxReloads == 3

ReloadFiles == {Data1, Data2, Data3}

ReloadKeywords == {<<>>, <<"b">>}

InitReload ==
    /\ Init
    /\ page \in {"item", "mon"}

\* loadGameData() is called again, once the fetch of the call before has settled.
Reload ==
    /\ nLoad < MaxReloads
    /\ inFlight = 0
    /\ inFlight' = inFlight + 1
    /\ nLoad' = nLoad + 1
    /\ UNCHANGED <<page, Stdlist, Monlist, Maplist, Npclist, indexedData,
                   searchCache, keyInput, monsterFilter, equList, outcome,
                   installed, stamps, nSearch, nTyped>>
    /\ UNCHANGED <<fvars, dvars>>

NextReload ==
    \/ Reload
    \/ \E d \in ReloadFiles : FetchInstall(d)
    \/ \E kw \in ReloadKeywords : Search(kw)

SpecReload == InitReload /\ [][NextReload]_vars

----------------------------------------------------------------------------
(* A session of searches that fills the cache *)

\* The characters of the keywords of such a session.
EvictAlphabet == <<"a", "b", "c", "d", "e", "f", "g", "h">>

\* The k-th keyword the user types: two characters, no two keywords alike.
KeywordNo(k) ==
    <<EvictAlphabet[((k - 1) \div Len(EvictAlphabet)) + 1],
      EvictAlphabet[((k - 1) % Len(EvictAlphabet)) + 1]>>

\* Distinct keywords the user types in one session.
MaxTyped == 52

\* The keywords the user types again: the first ones of the session.
MaxRetyped == 2

\* Searches with a keyword typed before in one session.
MaxAgain == 2

\* Once the data is shown, the user searches a keyword not typed so far.
SearchFresh ==
    /\ inFlight = 0
    /\ nTyped < MaxTyped
    /\ Click(KeywordNo(nTyped + 1))
    /\ nTyped' = nTyped + 1

\* The user searches again one of the first keywords typed.
SearchAgain(k) ==
    /\ inFlight = 0
    /\ k <= nTyped
    /\ nSearch - nTyped < MaxAgain
    /\ Click(KeywordNo(k))
    /\ UNCHANGED nTyped

NextEvict ==
    \/ FetchInstall(Data1)
    \/ SearchFresh
    \/ \E k \in 1..MaxRetyped : SearchAgain(k)

SpecEvict == Init /\ [][NextEvict]_vars

----------------------------------------------------------------------------
(* Claims about the searches, the cache and the loader *)

\* The collection the open page lists.
CurrentRowsList == Searched(page, Stdlist, Monlist, Maplist, Npclist)

\* The rows of the collection the open page lists.
CurrentRows == Searched(page, Stdlist, Monlist, Maplist, Npclist).rows

\* The row positions #equList shows, in the order shown.
ShownIds == [k \in 1..Len(equList.nodes) |-> equList.nodes[k].listId]

\* What the user reads in #equList: the position, number and name of each
\* entry, in the order shown.
ShownRows ==
    [k \in 1..Len(equList.nodes) |->
        [listId |-> equList.nodes[k].listId, no |-> equList.nodes[k].no,
         name |-> equList.nodes[k].name]]

\* The display filter as the specification states it.
PassesFilter(pg, row, filterType) ==
    CASE pg = "item" -> ~(row.mon = MinusOne /\ row.npc = MinusOne)
      [] pg = "mon" -> filterType = FilterAll \/ ~(row.std \in {Undef, Null, MinusOne})
      [] OTHER -> TRUE

\* C2: for every non-empty keyword K with no cache entry, the item search
\* lists exactly the rows of Stdlist whose name contains K as a
\* case-insensitive subsequence and that pass the display filter: nothing but
\* case-folding is done to the keyword.
C2_KeywordOnlyCaseFolded ==
    (page = "item" /\ outcome = "miss") =>
        {ShownIds[k] : k \in 1..Len(ShownIds)} =
            {i \in 0..(Len(Stdlist.rows) - 1) :
                /\ IsSubsequence(Stdlist.rows[i + 1].name, keyInput)
                /\ PassesFilter("item", Stdlist.rows[i + 1], monsterFilter)}

C4_HitShowsWhatMissShowed ==
    [][(/\ outcome = "miss"
        /\ outcome' = "hit"
        /\ keyInput' = keyInput
        /\ monsterFilter' = monsterFilter
        /\ UNCHANGED <<Stdlist, Monlist, Maplist, Npclist>>)
       => ShownRows' = ShownRows]_vars

\* A cache hit that shows rows.
C4_Witness ==
    /\ outcome = "hit"
    /\ Len(equList.nodes) >= 2

\* C5: a cache entry is never altered after it is stored, so every repetition
\* of a non-empty-keyword search on an unchanged dataset shows the rows the
\* run before it showed.
C5_RepetitionShowsSameRows ==
    [][(/\ outcome \in {"miss", "hit"}
        /\ outcome' = "hit"
        /\ keyInput' = keyInput
        /\ monsterFilter' = monsterFilter
        /\ UNCHANGED <<Stdlist, Monlist, Maplist, Npclist>>)
       => ShownRows' = ShownRows]_vars

\* The keys of a cache, the earliest inserted first.
CacheKeys(cache) == [k \in 1..Len(cache) |-> cache[k].key]

\* The cache key of the search for the k-th keyword on the open page.
KeyOfKeywordNo(k) ==
    CacheKey(page, NormalizeKeyword(KeywordNo(k)), monsterFilter, Len(CurrentRows))

\* C6: a non-empty-keyword search that misses while the cache holds
\* MAX_CACHE_SIZE entries evicts exactly the entry inserted earliest and
\* appends its own; a cache hit leaves the order of the keys as it is; so once
\* the 51st of 51 pairwise distinct keywords has been searched on an unchanged
\* dataset, the first key is out of the cache and the other 50 are in it.
C6_FifoEviction ==
    [][/\ (nSearch' # nSearch /\ outcome' = "miss"
                /\ Len(searchCache) = MAX_CACHE_SIZE) =>
            CacheKeys(searchCache') =
                Append(Tail(CacheKeys(searchCache)),
                       CacheKey(page, NormalizeKeyword(keyInput'), monsterFilter,
                                Len(CurrentRows)))
       /\ (nSearch' # nSearch /\ outcome' = "miss"
                /\ Len(searchCache) < MAX_CACHE_SIZE) =>
            CacheKeys(searchCache') =
                Append(CacheKeys(searchCache),
                       CacheKey(page, NormalizeKeyword(keyInput'), monsterFilter,
                                Len(CurrentRows)))
       /\ (nSearch' # nSearch /\ outcome' = "hit") =>
            CacheKeys(searchCache') = CacheKeys(searchCache)
       /\ (nTyped' = MAX_CACHE_SIZE + 1 /\ nTyped = MAX_CACHE_SIZE) =>
            /\ ~CacheHas(searchCache', KeyOfKeywordNo(1))
            /\ \A k \in 2..(MAX_CACHE_SIZE + 1) :
                  CacheHas(searchCache', KeyOfKeywordNo(k))
      ]_vars

\* The 51st distinct keyword has just been searched, after a cache hit on an
\* earlier keyword: the cache is full and the first key is gone.
C6_Witness ==
    /\ nTyped = MAX_CACHE_SIZE + 1
    /\ nSearch > nTyped
    /\ keyInput = KeywordNo(nTyped)
    /\ outcome = "miss"
    /\ Len(searchCache) = MAX_CACHE_SIZE
    /\ ~CacheHas(searchCache, KeyOfKeywordNo(1))
    /\ searchCache[1].key = KeyOfKeywordNo(2)

\* C7: an empty-keyword search on a loaded dataset clears the search cache,
\* takes its result from the collection and not from the cache, and stores
\* nothing: the cache is empty when it completes.
C7_EmptyKeywordClearsCache ==
    (keyInput = <<>> /\ outcome \notin {"none", "nodata", "threw"}) =>
        /\ outcome = "all"
        /\ searchCache = <<>>

\* An empty-keyword search has completed in a session whose cache held
\* entries when the last data file was installed.
C7_Witness ==
    /\ keyInput = <<>>
    /\ outcome = "all"
    /\ installed.taken
    /\ installed.cache # <<>>
    /\ searchCache = <<>>

\* C8: no search shows a result computed from a dataset other than the one
\* installed: every entry shown is a row of the current collection.
C8_ShowsCurrentDatasetOnly ==
    \A k \in 1..Len(equList.nodes) :
        /\ equList.nodes[k].listId < Len(CurrentRows)
        /\ equList.nodes[k].name = CurrentRows[equList.nodes[k].listId + 1].name

\* C9: when loadGameData has installed a dataset and before the first search
\* on it is answered, the name index has been rebuilt from the new collection
\* and the search cache is empty.
C9_InstallRebuildsAndClears ==
    installed.taken =>
        /\ installed.cache = <<>>
        /\ installed.index.built
        /\ \A i \in 1..Len(installed.list) :
              installed.list[i].name # <<>> =>
                  \E k \in 1..Len(installed.index.byName) :
                      /\ installed.index.byName[k].name = ToLowerCase(installed.list[i].name)
                      /\ \E j \in 1..Len(installed.index.byName[k].indices) :
                            installed.index.byName[k].indices[j] = i - 1

\* A segment that is a decimal numeral from its first to its last character.
IsDecimal(seg) == seg # <<>> /\ \A k \in 1..Len(seg) : IsDigit(seg[k])

\* A relation field every segment of which is a decimal numeral or empty.
WellFormed(field) ==
    \A i \in 1..Len(Split(field)) : Split(field)[i] = <<>> \/ IsDecimal(Split(field)[i])

\* The row positions a relation field addresses in a target of n rows: the
\* numbers of its decimal segments that are below n, from left to right.
ValidIds(field, n) ==
    LET valid == SelectSeq(Split(field),
                    LAMBDA seg : IsDecimal(seg) /\ DigitsValue(seg, 0) < n)
    IN  [k \in 1..Len(valid) |-> DigitsValue(valid[k], 0)]

\* entries are the related rows of field in target: none for "-1", and
\* otherwise the rows its valid segments address, in the order of the segments.
Resolved(field, target, entries) ==
    /\ field = MinusOne => entries = <<>>
    /\ (field # MinusOne /\ WellFormed(field)) =>
          /\ [k \in 1..Len(entries) |-> entries[k].target]
                = ValidIds(field, Len(target.rows))
          /\ \A k \in 1..Len(entries) :
                entries[k].text = target.rows[entries[k].target + 1].name

\* The entries of a list as target and text.
EntriesOf(nodes) ==
    [k \in 1..Len(nodes) |-> [target |-> nodes[k].target, text |-> nodes[k].name]]

\* C10: in the drill-downs a relation field equal to "-1" yields no related
\* rows, and any other field yields the target rows its valid segments
\* address, in the left-to-right order of the segments, an empty segment being
\* skipped and never read as id 0: item to monsters, item to NPCs, monster to
\* maps, map to NPCs.
C10_RelationsResolved ==
    /\ (drill.op = "getMonByWp" /\ ~drill.threw /\ monList.text # "item data unavailable") =>
          /\ Resolved(Stdlist.rows[drill.id + 1].mon, Monlist, EntriesOf(monList.nodes))
          /\ Resolved(Stdlist.rows[drill.id + 1].npc, Npclist, EntriesOf(npccon.nodes))
    /\ (drill.op = "getMapByMon" /\ drill.id < Len(Monlist.rows)) =>
          Resolved(Monlist.rows[drill.id + 1].map, Maplist, EntriesOf(mapList.nodes))
    /\ (drill.op = "getPathByMap" /\ ~drill.threw) =>
          Resolved(Maplist.rows[drill.id + 1].npc, Npclist,
                   SelectSeq(mapTransferList, LAMBDA e : e.legend = "npc"))

\* The item whose mon field is "2,,5" has been opened over six monsters:
\* #monList shows monster 2 and then monster 5.
C10_Witness ==
    /\ drill.op = "getMonByWp"
    /\ Stdlist.rows[drill.id + 1].mon = <<"2", ",", ",", "5">>
    /\ Len(Monlist.rows) > 5
    /\ [k \in 1..Len(monList.nodes) |-> monList.nodes[k].target] = <<2, 5>>

\* entries are the rows the whole-decimal in-range segments of field address,
\* whatever its other segments are.
ResolvedStrictly(field, target, entries) ==
    field # MinusOne =>
        /\ [k \in 1..Len(entries) |-> entries[k].target]
              = ValidIds(field, Len(target.rows))
        /\ \A k \in 1..Len(entries) :
              entries[k].text = target.rows[entries[k].target + 1].name

\* C11: during relation resolution a segment contributes an entry only if
\* the whole segment is a decimal integer that is a row position of the
\* target; an empty segment, a segment with a non-digit character anywhere, a
\* negative or an out-of-range one contributes no entry.
C11_OnlyWholeDecimalSegments ==
    /\ (drill.op = "getMonByWp" /\ ~drill.threw /\ monList.text # "item data unavailable") =>
          /\ ResolvedStrictly(Stdlist.rows[drill.id + 1].mon, Monlist,
                              EntriesOf(monList.nodes))
          /\ ResolvedStrictly(Stdlist.rows[drill.id + 1].npc, Npclist,
                              EntriesOf(npccon.nodes))
    /\ (drill.op = "getMapByMon" /\ drill.id < Len(Monlist.rows)) =>
          ResolvedStrictly(Monlist.rows[drill.id + 1].map, Maplist,
                           EntriesOf(mapList.nodes))
    /\ (drill.op = "getPathByMap" /\ ~drill.threw) =>
          ResolvedStrictly(Maplist.rows[drill.id + 1].npc, Npclist,
                           SelectSeq(mapTransferList, LAMBDA e : e.legend = "npc"))

\* C12: every drill-down the user can start from a search result or from a
\* drill-down list runs to completion without raising an exception, also when
\* the bot of the monster or the npc or the path of the map is absent.
C12_DrillDownsComplete == ~drill.threw

\* The four globals hold the collections of the data file d; on the monster
\* page Monlist may be the list derived from the items of d when d has no
\* monsters.
FromDataset(d) ==
    /\ Stdlist = Arr(d.Stdlist)
    /\ Maplist = Arr(d.Maplist)
    /\ Npclist = Arr(d.Npclist)
    /\ \/ Monlist = Arr(d.Monlist)
       \/ /\ page = "mon"
          /\ d.Monlist = <<>>
          /\ Monlist = Arr(createMonsterListFromStdlist(Arr(d.Stdlist)))

\* C13: whether a load succeeds, fails or is rolled back, Stdlist, Monlist,
\* Maplist and Npclist come from one dataset in every state a search or a
\* drill-down can observe: all four undefined before the first install, and
\* after it either all four of the new data file or all four as before.
C13_CollectionsOfOneDataset ==
    /\ \/ Stdlist = NoList /\ Monlist = NoList /\ Maplist = NoList /\ Npclist = NoList
       \/ \E d \in DataFiles : FromDataset(d)

\* An install over an installed dataset has been rolled back.
C13_Witness ==
    /\ outcome = "threw"
    /\ Stdlist.def
    /\ Len(Stdlist.rows) > 0
    /\ indexedData # initializeIndex(CurrentRowsList, NullIndex)

\* C14: a search reports the no-data outcome exactly when the collection it
\* searches (Stdlist, Monlist, Maplist or Npclist) is undefined or empty; a
\* search over a non-empty collection shows a list, empty when no row matches.
C14_NoDataIffEmptyCollection ==
    outcome \in {"nodata", "all", "hit", "miss"} =>
        (outcome = "nodata" <=> (~CurrentRowsList.def \/ Len(CurrentRows) = 0))

\* The items #equList lists are the items of Stdlist whose name matches the
\* text of #key and whose mon or npc is not "-1", each listed once.
ItemsListedByFilter ==
    /\ {ShownIds[k] : k \in 1..Len(ShownIds)} =
          {i \in 0..(Len(Stdlist.rows) - 1) :
              /\ IsSubsequence(Stdlist.rows[i + 1].name, keyInput)
              /\ ~(Stdlist.rows[i + 1].mon = MinusOne /\ Stdlist.rows[i + 1].npc = MinusOne)}
    /\ Cardinality({ShownIds[k] : k \in 1..Len(ShownIds)}) = Len(ShownIds)

\* The fallback loop of the item search, run on Stdlist with the text of #key,
\* appends the same items.
FallbackListsByFilter ==
    LET nodes == FallbackScan("item", Stdlist.rows, NormalizeKeyword(keyInput),
                              monsterFilter)
    IN  {nodes[k].listId : k \in 1..Len(nodes)} =
            {ShownIds[k] : k \in 1..Len(ShownIds)}

IndexExact(byName, rows) ==
    /\ \A j \in 1..Len(byName) : \A k \in 1..Len(byName) :
          byName[j].name = byName[k].name => j = k
    /\ \A k \in 1..Len(byName) :
          byName[k].indices =
              SelectSeq(Range(0, Len(rows) - 1),
                  LAMBDA i : /\ rows[i + 1].name # <<>>
                             /\ ToLowerCase(rows[i + 1].name) = byName[k].name)
    /\ \A k \in 1..Len(byName) : byName[k].indices # <<>>
    /\ \A i \in 1..Len(rows) :
          rows[i].name # <<>> =>
              \E k \in 1..Len(byName) : byName[k].name = ToLowerCase(rows[i].name)

\* C16: after initializeIndex has run on a collection, byName holds for each
\* key exactly the positions of the rows whose name lowercases to the key, in
\* ascending order; a row with a non-empty name is in exactly one list, once,
\* and a row with an empty name is in none.
C16_IndexHoldsPositionsByName ==
    installed.taken =>
        /\ installed.index.built
        /\ IndexExact(installed.index.byName, installed.list)

\* initializeIndex has run on a collection with two rows whose names differ
\* in case only and a row with an empty name.
C16_Witness ==
    /\ installed.taken
    /\ \E i \in 1..Len(installed.list) : installed.list[i].name = <<>>
    /\ \E k \in 1..Len(installed.index.byName) :
          Len(installed.index.byName[k].indices) >= 2

\* The position of the first row of the collection whose name lowercases as
\* the name of the row at position i does.
FirstOccurrence(rows, i) ==
    CHOOSE f \in 0..i :
        /\ ToLowerCase(rows[f + 1].name) = ToLowerCase(rows[i + 1].name)
        /\ \A g \in 0..(f - 1) :
              ToLowerCase(rows[g + 1].name) # ToLowerCase(rows[i + 1].name)

\* Entry p is listed before entry q in index-key order: its name occurs first
\* earlier in the collection, or the two share the name and p is the earlier row.
InIndexKeyOrder(rows, p, q) ==
    \/ FirstOccurrence(rows, p) < FirstOccurrence(rows, q)
    \/ /\ FirstOccurrence(rows, p) = FirstOccurrence(rows, q)
       /\ p < q

\* The index in use is the index of the collection searched.
IndexIsCurrent == indexedData = initializeIndex(CurrentRowsList, NullIndex)

\* C17: a search for a non-empty keyword through the index lists the
\* matching rows grouped by lowercased name, the groups in the order in which
\* the names first occur in the collection and the rows of a group in
\* ascending position.
C17_ListedInIndexKeyOrder ==
    (outcome = "miss" /\ IndexIsCurrent) =>
        /\ \A k \in 1..Len(ShownIds) : ShownIds[k] < Len(CurrentRows)
        /\ \A k \in 1..(Len(ShownIds) - 1) :
              InIndexKeyOrder(CurrentRows, ShownIds[k], ShownIds[k + 1])

\* Such a search has listed a later row before an earlier one: the list is not
\* in ascending position.
C17_Witness ==
    /\ outcome = "miss"
    /\ IndexIsCurrent
    /\ \E k \in 1..(Len(ShownIds) - 1) : ShownIds[k] > ShownIds[k + 1]

\* C19: in every reachable state the search cache of the page holds at most
\* MAX_CACHE_SIZE = 50 entries, under pairwise distinct keys.
C19_CacheAtMostFifty ==
    /\ Len(searchCache) <= MAX_CACHE_SIZE
    /\ \A j \in 1..Len(searchCache) : \A k \in 1..Len(searchCache) :
          searchCache[j].key = searchCache[k].key => j = k

\* A keyword never typed before has been searched with the cache full: the
\* cache is still full, and more keywords have been stored than it holds.
C19_Witness ==
    /\ Len(searchCache) = MAX_CACHE_SIZE
    /\ nTyped = MAX_CACHE_SIZE + 2
    /\ outcome = "miss"
    /\ searchCache[MAX_CACHE_SIZE].key = KeyOfKeywordNo(MAX_CACHE_SIZE + 2)

\* C20: whenever a search for a non-empty keyword has consulted the name
\* index, the index is the one a fresh build over the collection searched
\* produces: after an install, after an install that was rolled back, and after
\* the monster search has replaced an empty Monlist by the list derived from
\* Stdlist.
C20_IndexIsOfSearchedCollection ==
    (outcome = "miss" /\ indexedData.built) => IndexIsCurrent

\* The monsters #equList lists are the monsters of Monlist whose name matches
\* the text of #key and that the filter keeps, each listed once: under 'all'
\* every monster, under any other value the monsters whose std is defined,
\* not null and not "-1".
MonstersListedByFilter ==
    /\ {ShownIds[k] : k \in 1..Len(ShownIds)} =
          {i \in 0..(Len(Monlist.rows) - 1) :
              /\ IsSubsequence(Monlist.rows[i + 1].name, keyInput)
              /\ \/ monsterFilter = FilterAll
                 \/ Monlist.rows[i + 1].std \notin {Undef, Null, MinusOne}}
    /\ \A j \in 1..Len(ShownIds) : \A k \in 1..Len(ShownIds) :
          ShownIds[j] = ShownIds[k] => j = k

\* The fallback loop would list the same monsters.
FallbackListsMonsters ==
    LET nodes == FallbackScan("mon", Monlist.rows, NormalizeKeyword(keyInput),
                              FilterType(monsterFilter))
    IN  {nodes[k].listId : k \in 1..Len(nodes)} =
            {ShownIds[k] : k \in 1..Len(ShownIds)}

MonstersOfMode ==
    {i \in 0..(Len(Monlist.rows) - 1) :
        /\ IsSubsequence(Monlist.rows[i + 1].name, sanitizeInput(keyInput))
        /\ \/ monsterFilter = FilterAll
           \/ Monlist.rows[i + 1].std \notin {Undef, Null, MinusOne}}

\* C22: a result the monster search stored in the cache under one filter mode
\* is never displayed for a search made under another: what a cache hit
\* displays holds only monsters of the mode in force, and, unless the cached
\* fragment had been displayed before and is empty, all of them.
C22_HitShowsResultOfItsFilterMode ==
    (page = "mon" /\ outcome = "hit") =>
        /\ \A k \in 1..Len(ShownIds) : ShownIds[k] \in MonstersOfMode
        /\ ShownIds # <<>> => {ShownIds[k] : k \in 1..Len(ShownIds)} = MonstersOfMode

\* "b" has been searched under 'dropsItems' and under 'all', and then again
\* under 'all': the hit shows the six monsters of 'all' while the cache also
\* holds the three monsters stored under 'dropsItems'.
C22_Witness ==
    /\ page = "mon"
    /\ outcome = "hit"
    /\ monsterFilter = FilterAll
    /\ keyInput = <<"b">>
    /\ Len(ShownIds) = 6
    /\ \E k \in 1..Len(searchCache) :
          /\ searchCache[k].key = CacheKey("mon", <<"b">>, FilterDropsItems, 6)
          /\ Len(searchCache[k].frag) = 3

\* The cache key of the search the page has made last.
ServedKey ==
    CacheKey(page, NormalizeKeyword(keyInput),
             IF page = "mon" THEN FilterType(monsterFilter) ELSE monsterFilter,
             Len(CurrentRows))

LoadFailsInStep ==
    /\ installed'.failed # "no"
    /\ \/ inFlight' = inFlight - 1
       \/ nLoad' = nLoad + 1 /\ inFlight' = inFlight

\* C24: a call of loadGameData that fails before the installation (no version
\* cookie, a version isValidVersion rejects, a failed or empty response, a text
\* that does not parse, data isValidGameData rejects) leaves the four
\* collections, the name index and the search cache as they were.
C24_FailedLoadChangesNothing ==
    [][LoadFailsInStep =>
          UNCHANGED <<Stdlist, Monlist, Maplist, Npclist, indexedData, searchCache>>]_vars

\* A data file has been installed and searched, and the fetch of a second call
\* of loadGameData has ended with data isValidGameData rejects.
C24_Witness ==
    /\ installed.taken
    /\ installed.failed = "invalid"
    /\ nLoad = 2
    /\ inFlight = 0
    /\ Stdlist.def
    /\ indexedData.built
    /\ searchCache # <<>>

\* The row positions of a sequence of nodes.
ListIdsOf(nodes) == {nodes[k].listId : k \in 1..Len(nodes)}

\* The filter value the search of the open page uses.
CurrentFilter == IF page = "mon" THEN FilterType(monsterFilter) ELSE monsterFilter

\* On the collection of the open page, the loop over the index built from the
\* collection and the fallback loop list the same rows for the keyword kw.
SameRowsOnBothPaths(kw) ==
    ListIdsOf(IndexedScan(page, CurrentRows,
                          initializeIndex(CurrentRowsList, NullIndex).byName,
                          NormalizeKeyword(kw), CurrentFilter))
        = ListIdsOf(FallbackScan(page, CurrentRows, NormalizeKeyword(kw), CurrentFilter))

\* C25: for every collection and every non-empty keyword, the search through
\* the index and the fallback scan of the collection list the same set of
\* rows; they differ in the order of the rows at most.
C25_IndexedAndFallbackListSameRows ==
    CurrentRowsList.def =>
        /\ \A kw \in Keywords \ {<<>>} : SameRowsOnBothPaths(kw)
        /\ (outcome = "miss" /\ IndexIsCurrent) =>
              ListIdsOf(equList.nodes) =
                  ListIdsOf(FallbackScan(page, CurrentRows, NormalizeKeyword(keyInput),
                                         CurrentFilter))

\* The search through the index has listed rows the filter keeps and left out
\* rows it drops, in an order the fallback scan, which walks the collection
\* from its first row, does not produce.
C25_Witness ==
    /\ outcome = "miss"
    /\ IndexIsCurrent
    /\ indexedData.built
    /\ \E k \in 1..(Len(ShownIds) - 1) : ShownIds[k] > ShownIds[k + 1]
    /\ \E i \in 1..Len(CurrentRows) :
          /\ IsSubsequence(CurrentRows[i].name, NormalizeKeyword(keyInput))
          /\ ~PassesFilter(page, CurrentRows[i], CurrentFilter)

----------------------------------------------------------------------------
(* The two directions of the drill-down *)

\* The globals are a dataset isValidGameData accepts.
GlobalsAreValidData ==
    /\ Stdlist.def /\ Monlist.def /\ Maplist.def /\ Npclist.def
    /\ isValidGameData([Stdlist |-> Stdlist.rows, Monlist |-> Monlist.rows,
                        Maplist |-> Maplist.rows, Npclist |-> Npclist.rows])

\* Monster m is listed when item i is selected on the item page.
MonsterListedForItem(i, m) ==
    \E k \in 1..Len(getMonByWp(i, Stdlist, Monlist, Npclist).monList.nodes) :
        getMonByWp(i, Stdlist, Monlist, Npclist).monList.nodes[k].target = m

\* Item i is listed when monster m is selected on the monster page.
ItemListedForMonster(m, i) ==
    \E k \in 1..Len(getStdByMon(m, Stdlist, Monlist, Maplist).monList.nodes) :
        getStdByMon(m, Stdlist, Monlist, Maplist).monList.nodes[k].row = i

\* Item i is listed when monster m is selected on the map page.
ItemListedForMonsterOfMap(m, i) ==
    \E k \in 1..Len(getStdByMonOfMap(m, Stdlist).nodes) :
        getStdByMonOfMap(m, Stdlist).nodes[k].row = i

\* C26: on a dataset isValidGameData accepts, the entries a drill-down has
\* listed are those the drill-down of the other direction lists: after an
\* item is selected on the item page, monster m is in #monList exactly when
\* selecting m on the monster page lists the item; after a monster is selected
\* on the monster page or the map page, item i is in the list exactly when
\* selecting i on the item page lists the monster.
C26_DrillDownsAreInverse ==
    GlobalsAreValidData =>
        /\ (drill.op = "getMonByWp" /\ drill.id < Len(Stdlist.rows)) =>
              \A m \in 0..(Len(Monlist.rows) - 1) :
                  (\E k \in 1..Len(monList.nodes) : monList.nodes[k].target = m)
                      <=> ItemListedForMonster(m, drill.id)
        /\ (drill.op = "getStdByMon" /\ drill.id < Len(Monlist.rows)) =>
              \A i \in 0..(Len(Stdlist.rows) - 1) :
                  (\E k \in 1..Len(monList.nodes) : monList.nodes[k].row = i)
                      <=> MonsterListedForItem(i, drill.id)
        /\ (drill.op = "getStdByMonOfMap" /\ drill.id < Len(Monlist.rows)) =>
              \A i \in 0..(Len(Stdlist.rows) - 1) :
                  (\E k \in 1..Len(mapList.nodes) : mapList.nodes[k].row = i)
                      <=> MonsterListedForItem(i, drill.id)

\* C27: on the monster page, the monster that has been selected shows at least
\* one dropped item exactly when the 'dropsItems' filter keeps its row.
C27_FilterAgreesWithDrillDown ==
    (page = "mon" /\ drill.op = "getStdByMon" /\ drill.id < Len(Monlist.rows)) =>
        (ShouldDisplay("mon", Monlist.rows[drill.id + 1], FilterDropsItems)
            <=> monList.nodes # <<>>)

----------------------------------------------------------------------------
(* The handlers of the entries displayed *)

\* C28: every entry #equList shows after a search, computed by that search or
\* taken from the cache, has a click handler, and the handler calls the
\* drill-down with the row position the entry was written for.
C28_EveryEntryInvokesItsRow ==
    \A k \in 1..Len(equList.nodes) :
        equList.nodes[k].onclick = equList.nodes[k].listId

----------------------------------------------------------------------------
(* The loop of matchesFuzzily *)

\* A step from the loop to the loop: one iteration of the while loop.
IsIteration == mpc = "loop" /\ mpc' = "loop"

\* C29: every call of matchesFuzzily returns; the haystack position counts
\* the iterations, since it starts at 0, every iteration adds exactly one to
\* it and no other step changes it, and it never exceeds the length of the
\* haystack; an iteration leaves the needle position as it is or adds one to
\* it, and no other step changes it.
C29_MatcherTerminatesInOnePass ==
    /\ <>(mpc = "done")
    /\ [](haystackIndex <= Len(haystack) /\ needleIndex <= haystackIndex)
    /\ [][IsIteration => /\ haystackIndex' = haystackIndex + 1
                         /\ needleIndex' \in {needleIndex, needleIndex + 1}]_vars
    /\ [][~IsIteration => UNCHANGED <<haystackIndex, needleIndex>>]_vars

\* A call has returned after as many iterations as the haystack is long, some
\* of which advanced the needle position and some of which did not.
C29_Witness ==
    /\ mpc = "done"
    /\ haystackIndex = Len(haystack)
    /\ haystackIndex >= MaxStrLen
    /\ 0 < needleIndex /\ needleIndex < haystackIndex
    /\ needleIndex < Len(needle)

----------------------------------------------------------------------------
(* The dropdown of the navigation *)

\* The entries of #version-child-list written for the version at position i.
EntriesOfVersion(i) ==
    {k \in 1..Len(versionChildList) : versionChildList[k].index = i}

\* C30: whatever calls of initialize_page the ready handlers and the timer
\* have made, #version-child-list holds at most one entry for every version
\* of version_list, and once it holds the entries no call changes them.
C30_VersionAppendedAtMostOnce ==
    /\ [](\A i \in 0..(Len(version_list.rows) - 1) :
             Cardinality(EntriesOfVersion(i)) <= 1)
    /\ [][versionListPopulated => versionChildList' = versionChildList]_vars

\* The two ready handlers and the timer have called initialize_page, and the
\* dropdown holds an entry for each of several versions.
C30_Witness ==
    /\ readyRun = 2
    /\ nCalls >= 3
    /\ Len(versionChildList) >= 2

=============================================================================
